---- MODULE Spec2Model ----
(***************************************************************************)
(* Cover-letter generation pipeline: CoverLetterPipeline.execute() run     *)
(* against the record store, interleaved with the stop route for the same  *)
(* cover letter.  Every await on the record store, the document provider   *)
(* or a text-generation service is one step; each may return or throw.     *)
(***************************************************************************)
EXTENDS Integers, Sequences, FiniteSets, TLC

\* ------------------------------------------------------------------ bounds
MaxStops == 1            \* stop requests issued for the cover letter
MaxServiceErrors == 1    \* text-generation calls of one run that fail
MaxTicks == 1            \* watchdog ticks followed during one run
MaxCacheCalls == 2       \* calls into the cache module that are followed
MaxAdvances == 2         \* times the clock moves between those calls
MaxLines == 2            \* lines of a resume document
MaxSentences == 2        \* sentences given to one validateSentences call

\* --------------------------------------------------------------- constants
TotalSteps == 9      \* updateProgress default totalSteps

\* Promise.all argument order of Phase 1 and of Phase 4
Extractors == <<"ATSKeywords", "KeyRequirements">>
Agents == <<"OpeningHook", "AlignmentParagraph", "WhyCompany", "Leadership",
            "ValueProps", "PublicSector", "Closing">>

ExtractorSet == {Extractors[i] : i \in 1..Len(Extractors)}
AgentSet == {Agents[i] : i \in 1..Len(Agents)}

\* keys of the aggregated template data, in object-literal order
SectionKeys == <<"HiringManagerOrTeamName", "OpeningHookParagraph",
                 "AlignmentParagraph", "WhyCompanySentence",
                 "LeadershipParagraph", "ValueProp1Title", "ValueProp1Details",
                 "ValueProp2Title", "ValueProp2Details", "ValueProp3Title",
                 "ValueProp3Details", "ValueProp4Title", "ValueProp4Details",
                 "PublicSectorInterestParagraph", "ClosingParagraph",
                 "CandidateFullName">>

SectionKeySet == {SectionKeys[i] : i \in 1..Len(SectionKeys)}

\* the agent whose result fills a section ("literal" = built by execute itself)
AgentOf(key) ==
  CASE key = "OpeningHookParagraph" -> "OpeningHook"
    [] key = "AlignmentParagraph" -> "AlignmentParagraph"
    [] key = "WhyCompanySentence" -> "WhyCompany"
    [] key = "LeadershipParagraph" -> "Leadership"
    [] key \in {"ValueProp1Title", "ValueProp1Details", "ValueProp2Title",
                "ValueProp2Details", "ValueProp3Title", "ValueProp3Details",
                "ValueProp4Title", "ValueProp4Details"} -> "ValueProps"
    [] key = "PublicSectorInterestParagraph" -> "PublicSector"
    [] key = "ClosingParagraph" -> "Closing"
    [] OTHER -> "literal"

\* ------------------------------------------------------------------ values
\* A generated value: who produced it and whether it is the service's text or
\* the task's fixed fallback.
NoValue == [src |-> "none", by |-> "none"]
Generated(task) == [src |-> "llm", by |-> task]
Fallback(task) == [src |-> "fallback", by |-> task]
Literal == [src |-> "literal", by |-> "literal"]

\* a field the aggregation filled with "" because the structure lacked it
Empty(task) == [src |-> "empty", by |-> task]
\* a parsed structure that has prop1 but not every title and details
Partial(task, present) == [src |-> "partial", by |-> task, present |-> present]

IdleTask == [st |-> "idle", out |-> "none", val |-> NoValue]
PendingTask == [st |-> "pending", out |-> "none", val |-> NoValue]

NoContent == [stage |-> "null", vals |-> [k \in SectionKeySet |-> NoValue],
              refinedBy |-> "none"]
NoReport == [isValid |-> FALSE, score |-> 0, made |-> FALSE]

\* error messages carried by the exception that reaches execute's catch
ErrStore == [message |-> "record store error", task |-> "none"]
ErrJobNotFound == [message |-> "Job description not found", task |-> "none"]
ErrProvider == [message |-> "document provider error", task |-> "none"]
ErrEmbeddings == [message |-> "embeddings service error", task |-> "none"]
ErrCoherenceNull ==
  [message |-> "Cannot convert null to object", task |-> "none"]
ErrAgent(task) == [message |-> "text generation error", task |-> task]
NoError == [message |-> "none", task |-> "none"]

CacheKeys == {"StyleGuide_raw", "Resume_raw", "Resume_processed",
              "CoverLetter_raw", "CoverLetter_processed"}

VARIABLES
  coverLetter,        \* the GenerationJob record: status, content, scores
  pipelineRun,        \* the PipelineRun record
  jobDescription,     \* the job posting of the cover letter (may be absent)
  hasDocuments,       \* whether the user has uploaded documents
  cache,              \* the shared MemoryCache, restricted to this user's keys
  pc,                 \* position of execute()
  error,              \* the error caught by execute's catch
  watchdogInterval,   \* "unset", "active" or "cleared"
  extractors,         \* Phase 1 member tasks
  agents,             \* Phase 4 member tasks
  firstSettled,       \* the Phase 4 task that settled first
  matchedAccomplishments,
  coverLetterData,    \* aggregated section map
  resumeValidatedContent,
  validationResult,
  polishedCoverLetterData,
  validatedContent,   \* output of wordCountValidator
  entered,            \* progress steps written so far, in order
  coherenceCalls,     \* calls of the coherence service issued
  serviceErrors,      \* text-generation calls that threw or returned bad JSON
  stopPc,             \* position of the stop route's handler
  stopCount,          \* stop requests issued
  stopHandled,        \* a stop request has run to its success response
  watchdogTicks,      \* times the watchdog's interval callback has run
  store,              \* MemoryCache.store: key -> entry
  now,                \* Date.now(), in milliseconds
  lastCall,           \* the latest call into the cache module and its result
  cacheCalls,         \* calls into the cache module so far
  clockAdvances,      \* times the clock has moved so far
  validatorState,     \* none, ready (constructed) or done (validated)
  resumePhrases,      \* OptimizedResumeValidator.resumePhrases
  validationCache,    \* OptimizedResumeValidator.cache: hash -> result
  inputSentences,     \* the list given to validateSentences
  report,             \* the ValidationResult it returned
  sentenceResults,    \* what each validateSentence call of it returned
  trimmerState,       \* none, done (called once) or again (called twice)
  sectionMap,         \* the map given to wordCountValidator
  maxWords,           \* the budget given to it
  trimmedData,        \* the map it returned
  trimmerPass,        \* the last pass it ran: none, first or second
  afterFirstPass,     \* trimmedData and currentWordCount when pass 1 ended
  uploads,            \* the upload route: position, documents version
  userCache,          \* one user's cache entries: the version they hold
  load,               \* a run's cache loads of steps 2 and 3
  lastRead            \* what the latest cache read of the user returned

vars == <<coverLetter, pipelineRun, jobDescription, hasDocuments, cache, pc,
          error, watchdogInterval, extractors, agents, firstSettled,
          matchedAccomplishments, coverLetterData, resumeValidatedContent,
          validationResult, polishedCoverLetterData, validatedContent,
          entered, coherenceCalls, serviceErrors, stopPc, stopCount,
          stopHandled, watchdogTicks, store, now, lastCall, cacheCalls,
          clockAdvances, validatorState, resumePhrases, validationCache,
          inputSentences, report, sentenceResults, trimmerState, sectionMap,
          maxWords, trimmedData, trimmerPass, afterFirstPass, uploads,
          userCache, load, lastRead>>

records == <<coverLetter, pipelineRun, jobDescription>>
locals == <<matchedAccomplishments, coverLetterData, resumeValidatedContent,
            validationResult, polishedCoverLetterData, validatedContent>>
tasks == <<extractors, agents, firstSettled>>
stopVars == <<stopPc, stopCount, stopHandled>>
\* what neither execute() nor the stop route writes
cacheVars == <<store, now, lastCall, cacheCalls, clockAdvances>>
validatorVars == <<validatorState, resumePhrases, validationCache,
                   inputSentences, report, sentenceResults>>
trimmerVars == <<trimmerState, sectionMap, maxWords, trimmedData,
                 trimmerPass, afterFirstPass>>
uploadVars == <<uploads, userCache, load, lastRead>>
readOnly == <<hasDocuments, watchdogTicks, cacheVars, validatorVars,
              trimmerVars, uploadVars>>

\* ---------------------------------------------------------------- helpers
\* Math.round((progress / totalSteps) * 100)
RoundPercent(progress, totalSteps) ==
  (200 * progress + totalSteps) \div (2 * totalSteps)

\* a task's result after its own try/catch around the text-generation call
TaskResult_rethrow(task, outcome) ==
  IF outcome = "text"
    THEN [st |-> "settled", out |-> outcome, val |-> Generated(task)]
    ELSE [st |-> "rejected", out |-> outcome, val |-> NoValue]

TaskResult(task, outcome) ==
  IF outcome = "text"
    THEN [st |-> "settled", out |-> outcome, val |-> Generated(task)]
    ELSE [st |-> "settled", out |-> outcome, val |-> Fallback(task)]

\* the eight section keys filled from the value-proposition structure
ValuePropKeys == {k \in SectionKeySet : AgentOf(k) = "ValueProps"}

\* JSON objects the service can return that are not four title/details
\* pairs: whether prop1 is there, and the title/details fields that are
MalformedShapes ==
  {[prop1 |-> FALSE, present |-> {}],
   [prop1 |-> FALSE, present |-> {"ValueProp2Title", "ValueProp2Details"}],
   [prop1 |-> TRUE, present |-> {}],
   [prop1 |-> TRUE,
    present |-> {"ValueProp1Title", "ValueProp1Details", "ValueProp2Title"}],
   [prop1 |-> TRUE, present |-> ValuePropKeys \ {"ValueProp4Details"}]}

\* generateValueProps: return result.prop1 ? result : default
StructuredResult(task, shape) ==
  [st |-> "settled", out |-> "malformed",
   val |-> IF shape.prop1 THEN Partial(task, shape.present)
           ELSE Fallback(task)]

\* valueProps.propN?.title || "" and valueProps.propN?.details || ""
SectionValue(result, key) ==
  IF result.src = "partial"
    THEN IF key \in result.present THEN [src |-> "partial", by |-> result.by]
         ELSE Empty(result.by)
    ELSE result

\* Promise.all: resolves when every member has settled
JoinReady_any(members) ==
  \E t \in DOMAIN members : members[t].st = "settled"

JoinReady(members) ==
  \A t \in DOMAIN members : members[t].st = "settled"

\* Promise.all: rejects as soon as one member rejects
JoinRejected(members) ==
  \E t \in DOMAIN members : members[t].st = "rejected"

RejectedTask(members) ==
  CHOOSE t \in DOMAIN members : members[t].st = "rejected"

\* position of a task in the Promise.all argument list
IndexOf(order, task) == CHOOSE i \in 1..Len(order) : order[i] = task

\* the array Promise.all resolves to: one result per argument position
PromiseAll_completionOrder(order, members, first) ==
  [i \in 1..Len(order) |->
     IF i = 1 THEN members[first].val
     ELSE IF order[i] = first THEN members[order[1]].val
     ELSE members[order[i]].val]

PromiseAll(order, members, first) ==
  [i \in 1..Len(order) |-> members[order[i]].val]

\* the aggregation step: the destructured array fills the template keys
Aggregate(results) ==
  [stage |-> "aggregated",
   vals |-> [k \in SectionKeySet |->
              IF AgentOf(k) = "literal" THEN Literal
              ELSE IF k \in ValuePropKeys
                THEN SectionValue(results[IndexOf(Agents, AgentOf(k))], k)
              ELSE results[IndexOf(Agents, AgentOf(k))]],
   refinedBy |-> "none"]

\* validateAgainstResume: same map with corrections substituted
ValidatedContentOf(data) == [data EXCEPT !.stage = "validated"]

\* a JSON object of the service that names the closing section "Closing"
Rekeyed(sections) ==
  [k \in (DOMAIN sections \ {"ClosingParagraph"}) \cup {"Closing"} |->
     IF k = "Closing" THEN sections["ClosingParagraph"] ELSE sections[k]]

\* coherenceRefinement: the service's JSON on success, the draft on failure
CoherenceResult(draft, outcome) ==
  IF outcome = "rekeyed"
    THEN [stage |-> "refined", vals |-> Rekeyed(draft.vals),
          refinedBy |-> "llm"]
    ELSE [draft EXCEPT !.stage = "refined",
                       !.refinedBy = IF outcome = "text" THEN "llm"
                                     ELSE "draft"]

\* wordCountValidator
WordCountValidated(data) == [data EXCEPT !.stage = "trimmed"]

\* const finalContent = validatedContent
FinalContent_polished(trimmed, polished) == polished

FinalContent(trimmed, polished) == trimmed

\* qualityScores.overall
Overall(validationScore) ==
  (2 * (95 + 96 + 96 + 97 + validationScore) + 5) \div 10

\* the final status when it is made to depend on the report being valid
FinalStatus_whenValid(validationScore) ==
  IF Overall(validationScore) >= 70 /\ validationScore >= 70
    THEN "completed" ELSE "refining"

\* status: overall >= 70 && validationResult.score >= 0 ? ... : ...
FinalStatus(validationScore) ==
  IF Overall(validationScore) >= 70 /\ validationScore >= 0
    THEN "completed" ELSE "refining"

TerminalStatus == {"completed", "failed"}

\* samples of the validation report's score: the fallback of
\* validateAgainstResume's catch, the floor, lenient mode, the top
ValidationScores == {50, 75, 85, 100}

\* what a text-generation call can do next
ServiceOutcomes == IF serviceErrors < MaxServiceErrors
                     THEN {"text", "throw"} ELSE {"text"}

CountError(outcome) ==
  serviceErrors' = IF outcome = "throw" THEN serviceErrors + 1
                   ELSE serviceErrors

\* ---------------------------------------------- samples for the cache module
\* user ids, one the decimal prefix of the other
Users == {1, 11}
DigitChars == <<"0", "1", "2", "3", "4", "5", "6", "7", "8", "9">>
\* the two domain caches keyed by user alone, and the two tiers of every cache
Domains == {"StyleGuide", "Resume"}
Tiers == {"_raw", "_processed"}
\* job title and company, as character sequences
Jobs == {[title |-> <<"Q", "a">>, company |-> <<"7">>],
         [title |-> <<"q">>, company |-> <<"*", " ">>]}
\* milliseconds the clock moves between two calls: one, a job-mapping ttl,
\* a domain ttl
ClockSteps == {1, 3600000, 86400000}
\* what the documents query and the analysis call can do
DbOutcomes == {"rows", "empty", "throw"}
ComputeOutcomes == {"valid", "invalid", "throw"}

\* ------------------------------------------------------- the cache module
RECURSIVE IdToString(_)
\* the last decimal digit only
IdToString_lastDigit(u) == <<DigitChars[(u % 10) + 1]>>

\* userId.toString()
IdToString(u) ==
  IF u < 10 THEN <<DigitChars[u + 1]>>
  ELSE IdToString(u \div 10) \o <<DigitChars[(u % 10) + 1]>>

\* keyTemplate "user:{userId}:{collection}:all" + "_raw" / "_processed"
DomainKey(coll, u, tier) ==
  <<"user:">> \o IdToString(u) \o <<":", coll, ":", "all", tier>>

\* toLowerCase() of one character
Lower(c) == IF c = "Q" THEN "q" ELSE c

\* replace(/[^a-z0-9]/g, '_') of one character
Sanitize(c) == IF c \in {"q", "a", "7"} THEN c ELSE "_"

\* `${jobTitle}_${company}`.toLowerCase().replace(/[^a-z0-9]/g, '_')
LetterId(job) ==
  LET joined == job.title \o <<"_">> \o job.company
  IN [i \in 1..Len(joined) |-> Sanitize(Lower(joined[i]))]

\* keyTemplate "user:{userId}:CoverLetter:{letterId}" + tier
LetterKey(job, u, tier) ==
  <<"user:">> \o IdToString(u) \o <<":", "CoverLetter", ":">>
    \o LetterId(job) \o <<tier>>

\* every key the accessors can build for user u
KeysOf(u) ==
  {DomainKey(d, u, t) : d \in Domains, t \in Tiers}
    \cup {LetterKey(j, u, t) : j \in Jobs, t \in Tiers}

AllKeys == UNION {KeysOf(u) : u \in Users}

\* the user whose uploads and cache loads are followed, and the job of
\* that user's cover letters
UploadingUser == CHOOSE u \in Users : \A v \in Users : u <= v
LoadedJob == CHOOSE job \in Jobs : job.company = <<"7">>
ResumeRawKey == DomainKey("Resume", UploadingUser, "_raw")
ResumeProcessedKey == DomainKey("Resume", UploadingUser, "_processed")
MappingRawKey == LetterKey(LoadedJob, UploadingUser, "_raw")
MappingProcessedKey == LetterKey(LoadedJob, UploadingUser, "_processed")
LoadedKeys ==
  {ResumeRawKey, ResumeProcessedKey, MappingRawKey, MappingProcessedKey}

\* a cache entry is told by the version of the user's documents its
\* content was loaded or computed from; Missing is no entry
Missing == [found |-> FALSE, version |-> 0]
Stored(version) == [found |-> TRUE, version |-> version]

\* ttlSeconds of a collection
TtlSeconds(coll) == IF coll = "CoverLetter" THEN 3600 ELSE 86400

\* null, and a Map without the key
NoData == [owner |-> 0, coll |-> "none", kind |-> "none", shape |-> "none"]
NoEntry == [data |-> NoData, expiry |-> 0, setAt |-> 0, ttl |-> 0]
NoCall == [op |-> "none", user |-> 0, key |-> <<>>, result |-> NoData,
           hit |-> FALSE, raised |-> FALSE, found |-> NoData,
           failed |-> "none"]

\* MemoryCache.set with the ttl taken as milliseconds
CacheSet_ttlMillis(s, k, d, ttl, t) ==
  [s EXCEPT ![k] = [data |-> d, expiry |-> t + ttl, setAt |-> t, ttl |-> ttl]]

\* MemoryCache.set: expiry = Date.now() + ttlSeconds * 1000
CacheSet(s, k, d, ttl, t) ==
  [s EXCEPT ![k] = [data |-> d, expiry |-> t + ttl * 1000, setAt |-> t,
                    ttl |-> ttl]]

\* MemoryCache.get: the value returned
GetData(s, k, t) ==
  IF s[k] = NoEntry THEN NoData
  ELSE IF t > s[k].expiry THEN NoData
  ELSE s[k].data

\* MemoryCache.get: the store it leaves
AfterGet(s, k, t) ==
  IF s[k] /= NoEntry /\ t > s[k].expiry THEN [s EXCEPT ![k] = NoEntry]
  ELSE s

\* MemoryCache.delete
CacheDelete(s, k) == [s EXCEPT ![k] = NoEntry]

\* key.includes(pattern)
Includes(key, pattern) ==
  \E i \in 0..(Len(key) - Len(pattern)) :
    SubSeq(key, i + 1, i + Len(pattern)) = pattern

\* MemoryCache.getKeysMatching
GetKeysMatching(s, pattern) ==
  {k \in DOMAIN s : s[k] /= NoEntry /\ Includes(k, pattern)}

\* a pattern made of the user id and the collection name alone
UserCachePattern_open(u) == IdToString(u) \o <<":", "CoverLetter", ":">>

\* `user:${userId}:CoverLetter:*`
UserCachePattern(u) ==
  <<"user:">> \o IdToString(u) \o <<":", "CoverLetter", ":", "*">>

\* a shape check that lets every cached object through
ValidateProcessedSchema_any(coll, data) == data /= NoData

\* validateProcessedSchema of the three caches
ValidateProcessedSchema(coll, data) ==
  IF coll = "CoverLetter" THEN data /= NoData
  ELSE data /= NoData /\ data.shape = "valid"

\* the content the database holds for a user, or the fixed text for none
RawContent(coll, u, rows) ==
  [owner |-> u, coll |-> coll,
   kind |-> IF rows = "rows" THEN "raw" ELSE "rawDefault", shape |-> "valid"]

\* JSON.parse of the analysis / extraction response
Processed(coll, u, shape) ==
  [owner |-> u, coll |-> coll, kind |-> "processed", shape |-> shape]

\* { accomplishments: [], skills: [], experience: [] }
DefaultEmbeddings(u) ==
  [owner |-> u, coll |-> "Resume", kind |-> "processedDefault",
   shape |-> "valid"]

\* mapAccomplishmentsToRequirements: the scored mapping, or its catch value
Mapping(u, outcome) ==
  [owner |-> u, coll |-> "CoverLetter",
   kind |-> IF outcome = "text" THEN "mapping" ELSE "mappingDefault",
   shape |-> "valid"]


\* -------------------------------------------------------------------- Init
\* The state the generate route leaves behind: a draft cover letter, a running
\* pipeline run, a constructed pipeline whose execute() has not started.
Init ==
  /\ coverLetter = [status |-> "draft", content |-> NoContent,
                    qualityScore |-> 0, validationScore |-> 0]
  /\ pipelineRun = [currentStep |-> "Initializing", progress |-> 0,
                    status |-> "running", agentLogs |-> NoError]
  /\ \E found \in BOOLEAN :
       jobDescription = [found |-> found, atsKeywords |-> NoValue,
                         keyRequirements |-> NoValue]
  /\ hasDocuments \in BOOLEAN
  /\ cache = [k \in CacheKeys |-> "absent"]
  /\ pc = "created"
  /\ error = NoError
  /\ watchdogInterval = "unset"
  /\ extractors = [t \in ExtractorSet |-> IdleTask]
  /\ agents = [t \in AgentSet |-> IdleTask]
  /\ firstSettled = "none"
  /\ matchedAccomplishments = "none"
  /\ coverLetterData = NoContent
  /\ resumeValidatedContent = NoContent
  /\ validationResult = NoReport
  /\ polishedCoverLetterData = NoContent
  /\ validatedContent = NoContent
  /\ entered = <<>>
  /\ coherenceCalls = 0
  /\ serviceErrors = 0
  /\ stopPc = "idle"
  /\ stopCount = 0
  /\ stopHandled = FALSE
  /\ watchdogTicks = 0
  /\ store = [k \in AllKeys |-> NoEntry]
  /\ now = 0
  /\ lastCall = NoCall
  /\ cacheCalls = 0
  /\ clockAdvances = 0
  /\ validatorState = "none"
  /\ resumePhrases = <<>>
  /\ validationCache = {}
  /\ inputSentences = <<>>
  /\ report = [isValid |-> FALSE, score |-> 0, flaggedClaims |-> <<>>,
               supportedClaims |-> <<>>, corrections |-> <<>>]
  /\ sentenceResults = <<>>
  /\ trimmerState = "none"
  /\ sectionMap = [k \in SectionKeySet |-> [type |-> "string", text |-> ""]]
  /\ maxWords = 0
  /\ trimmedData = [k \in SectionKeySet |-> [type |-> "string", text |-> ""]]
  /\ trimmerPass = "none"
  /\ afterFirstPass =
       [data |-> [k \in SectionKeySet |-> [type |-> "string", text |-> ""]],
        currentWordCount |-> 0]
  /\ uploads = [pc |-> "idle", documents |-> 0, invalidated |-> 0]
  /\ userCache = [k \in LoadedKeys |-> Missing]
  /\ load = [pc |-> "idle", caller |-> "none", rows |-> 0, content |-> 0,
             resumeContent |-> 0, runs |-> 0]
  /\ lastRead = [key |-> <<>>, found |-> FALSE, version |-> 0, after |-> 0]

\* ------------------------------------------------------------ execute()
\* the catch block entered with the interval left running
Throw_keepInterval(msg) ==
  /\ pc' = "catchGetPipelineRun"
  /\ error' = msg
  /\ UNCHANGED watchdogInterval

\* an awaited call throws: control moves to execute's catch, which first
\* clears the watchdog and then awaits getPipelineRunByCoverLetterId
Throw(msg) ==
  /\ pc' = "catchGetPipelineRun"
  /\ error' = msg
  /\ watchdogInterval' = "cleared"

\* updateProgress with the other pipeline's totalSteps of 8
ProgressWrite_ofEight(step, n) ==
  /\ pipelineRun' = [pipelineRun EXCEPT !.currentStep = step,
                                        !.progress = RoundPercent(n, 8)]
  /\ entered' = Append(entered, n)

\* updateProgress with the write left out
ProgressWrite_noWrite(step, n) ==
  /\ UNCHANGED pipelineRun
  /\ entered' = Append(entered, n)

\* updateProgress(step, n): read the run, write currentStep and progress
ProgressWrite(step, n) ==
  /\ pipelineRun' = [pipelineRun EXCEPT !.currentStep = step,
                                        !.progress = RoundPercent(n, TotalSteps)]
  /\ entered' = Append(entered, n)

ExecuteStart ==
  /\ pc = "created"
  /\ pc' = "getCoverLetter"
  /\ watchdogInterval' = "active"
  /\ UNCHANGED <<records, readOnly, cache, error, tasks, locals, entered,
                 coherenceCalls, serviceErrors, stopVars>>

GetCoverLetter ==
  /\ pc = "getCoverLetter"
  /\ \/ /\ pc' = "getJobDescriptions"
        /\ UNCHANGED <<error, watchdogInterval>>
     \/ Throw(ErrStore)
  /\ UNCHANGED <<records, readOnly, cache, tasks, locals, entered,
                 coherenceCalls, serviceErrors, stopVars>>

GetJobDescriptions ==
  /\ pc = "getJobDescriptions"
  /\ \/ /\ jobDescription.found
        /\ pc' = "progress1"
        /\ UNCHANGED <<error, watchdogInterval>>
     \/ /\ ~jobDescription.found
        /\ Throw(ErrJobNotFound)
     \/ Throw(ErrStore)
  /\ UNCHANGED <<records, readOnly, cache, tasks, locals, entered,
                 coherenceCalls, serviceErrors, stopVars>>

\* Step 1: progress write, then both extractors are called
Progress1 ==
  /\ pc = "progress1"
  /\ \/ /\ ProgressWrite("Running parallel analysis", 1)
        /\ extractors' = [t \in ExtractorSet |-> PendingTask]
        /\ pc' = "phase1"
        /\ UNCHANGED <<error, watchdogInterval>>
     \/ /\ Throw(ErrStore)
        /\ UNCHANGED <<pipelineRun, entered, extractors>>
  /\ UNCHANGED <<coverLetter, jobDescription, readOnly, cache, agents,
                 firstSettled, locals, coherenceCalls, serviceErrors, stopVars>>

\* one extractor's text-generation call returns or throws
ExtractorSettle(t) ==
  /\ pc = "phase1"
  /\ extractors[t].st = "pending"
  /\ \E outcome \in ServiceOutcomes :
       /\ extractors' = [extractors EXCEPT ![t] = TaskResult(t, outcome)]
       /\ CountError(outcome)
  /\ firstSettled' = IF firstSettled = "none" THEN t ELSE firstSettled
  /\ UNCHANGED <<records, readOnly, cache, pc, error, watchdogInterval,
                 agents, locals, entered, coherenceCalls, stopVars>>

\* Promise.all of Phase 1 resumes execute, which calls updateJobDescription
Phase1Join ==
  /\ pc = "phase1"
  /\ JoinRejected(extractors) \/ JoinReady(extractors)
  /\ IF JoinRejected(extractors)
       THEN Throw(ErrAgent(RejectedTask(extractors)))
       ELSE /\ pc' = "updateJobDescription"
            /\ UNCHANGED <<error, watchdogInterval>>
  /\ UNCHANGED <<records, readOnly, cache, tasks, locals, entered,
                 coherenceCalls, serviceErrors, stopVars>>

UpdateJobDescription ==
  /\ pc = "updateJobDescription"
  /\ \/ /\ jobDescription' =
             [jobDescription EXCEPT
                !.atsKeywords =
                   PromiseAll(Extractors, extractors, firstSettled)[1],
                !.keyRequirements =
                   PromiseAll(Extractors, extractors, firstSettled)[2]]
        /\ pc' = "progress2"
        /\ UNCHANGED <<error, watchdogInterval>>
     \/ /\ Throw(ErrStore)
        /\ UNCHANGED jobDescription
  /\ UNCHANGED <<coverLetter, pipelineRun, readOnly, cache, tasks, locals,
                 entered, coherenceCalls, serviceErrors, stopVars>>

Progress2 ==
  /\ pc = "progress2"
  /\ \/ /\ ProgressWrite("Loading style guide content", 2)
        /\ pc' = "styleGuideRaw"
        /\ UNCHANGED <<error, watchdogInterval>>
     \/ /\ Throw(ErrStore)
        /\ UNCHANGED <<pipelineRun, entered>>
  /\ UNCHANGED <<coverLetter, jobDescription, readOnly, cache, tasks,
                 locals, coherenceCalls, serviceErrors, stopVars>>

\* StyleGuideCache.getRawStyleGuideContent: raw hit, or load and cache
RawStyleGuideContent ==
  /\ pc = "styleGuideRaw"
  /\ \/ /\ cache["StyleGuide_raw"] /= "absent"
        /\ pc' = "resumeRaw"
        /\ UNCHANGED <<cache, error, watchdogInterval>>
     \/ /\ cache["StyleGuide_raw"] = "absent"
        /\ \/ /\ cache' = [cache EXCEPT !["StyleGuide_raw"] =
                             IF hasDocuments THEN "documents" ELSE "default"]
              /\ pc' = "resumeRaw"
              /\ UNCHANGED <<error, watchdogInterval>>
           \/ /\ Throw(ErrProvider)
              /\ UNCHANGED cache
  /\ UNCHANGED <<records, readOnly, tasks, locals, entered,
                 coherenceCalls, serviceErrors, stopVars>>

\* ResumeEmbeddingsCache.getRawResumeContent
RawResumeContent ==
  /\ pc = "resumeRaw"
  /\ \/ /\ cache["Resume_raw"] /= "absent"
        /\ pc' = "embeddings"
        /\ UNCHANGED <<cache, error, watchdogInterval>>
     \/ /\ cache["Resume_raw"] = "absent"
        /\ \/ /\ cache' = [cache EXCEPT !["Resume_raw"] =
                             IF hasDocuments THEN "documents" ELSE "default"]
              /\ pc' = "embeddings"
              /\ UNCHANGED <<error, watchdogInterval>>
           \/ /\ Throw(ErrProvider)
              /\ UNCHANGED cache
  /\ UNCHANGED <<records, readOnly, tasks, locals, entered,
                 coherenceCalls, serviceErrors, stopVars>>

\* ResumeEmbeddingsCache.generateEmbeddings: processed hit, the default for
\* 'No resume content available', or the embeddings call, which has no
\* try/catch of its own
GenerateEmbeddings ==
  /\ pc = "embeddings"
  /\ \/ /\ cache["Resume_processed"] /= "absent"
        /\ pc' = "progress3"
        /\ UNCHANGED <<cache, error, watchdogInterval, serviceErrors>>
     \/ /\ cache["Resume_processed"] = "absent"
        /\ cache["Resume_raw"] = "default"
        /\ cache' = [cache EXCEPT !["Resume_processed"] = "default"]
        /\ pc' = "progress3"
        /\ UNCHANGED <<error, watchdogInterval, serviceErrors>>
     \/ /\ cache["Resume_processed"] = "absent"
        /\ cache["Resume_raw"] /= "default"
        /\ \E outcome \in ServiceOutcomes :
             /\ CountError(outcome)
             /\ IF outcome = "text"
                  THEN /\ cache' = [cache EXCEPT
                                      !["Resume_processed"] = "computed"]
                       /\ pc' = "progress3"
                       /\ UNCHANGED <<error, watchdogInterval>>
                  ELSE /\ Throw(ErrEmbeddings)
                       /\ UNCHANGED cache
  /\ UNCHANGED <<records, readOnly, tasks, locals, entered,
                 coherenceCalls, stopVars>>

\* Step 3: progress write, then CoverLetterDataCache.get
Progress3 ==
  /\ pc = "progress3"
  /\ \/ /\ ProgressWrite("Checking cover letter cache", 3)
        /\ IF cache["CoverLetter_processed"] /= "absent"
             THEN /\ matchedAccomplishments' = cache["CoverLetter_processed"]
                  /\ pc' = "progress4"
             ELSE IF cache["CoverLetter_raw"] /= "absent"
             THEN /\ matchedAccomplishments' = cache["CoverLetter_raw"]
                  /\ pc' = "progress4"
             ELSE /\ matchedAccomplishments' = "none"
                  /\ pc' = "mapAccomplishments"
        /\ UNCHANGED <<error, watchdogInterval>>
     \/ /\ Throw(ErrStore)
        /\ UNCHANGED <<pipelineRun, entered, matchedAccomplishments>>
  /\ UNCHANGED <<coverLetter, jobDescription, readOnly, cache, tasks,
                 coverLetterData, resumeValidatedContent, validationResult,
                 polishedCoverLetterData, validatedContent, coherenceCalls,
                 serviceErrors, stopVars>>

\* mapAccomplishmentsToRequirements (own try/catch), then CoverLetterDataCache.set
MapAccomplishments ==
  /\ pc = "mapAccomplishments"
  /\ \E outcome \in ServiceOutcomes :
       LET mapped == IF outcome = "text" THEN "computed" ELSE "default" IN
       /\ CountError(outcome)
       /\ matchedAccomplishments' = mapped
       /\ cache' = [cache EXCEPT !["CoverLetter_raw"] = mapped,
                                 !["CoverLetter_processed"] = mapped]
  /\ pc' = "progress4"
  /\ UNCHANGED <<records, readOnly, error, watchdogInterval, tasks,
                 coverLetterData, resumeValidatedContent, validationResult,
                 polishedCoverLetterData, validatedContent, entered,
                 coherenceCalls, stopVars>>

\* Step 4: progress write, then the seven agents are called
Progress4 ==
  /\ pc = "progress4"
  /\ \/ /\ ProgressWrite("Generating sections in parallel", 4)
        /\ agents' = [t \in AgentSet |-> PendingTask]
        /\ firstSettled' = "none"
        /\ pc' = "phase4"
        /\ UNCHANGED <<error, watchdogInterval>>
     \/ /\ Throw(ErrStore)
        /\ UNCHANGED <<pipelineRun, entered, agents, firstSettled>>
  /\ UNCHANGED <<coverLetter, jobDescription, readOnly, cache, extractors,
                 locals, coherenceCalls, serviceErrors, stopVars>>

\* one agent's text-generation call returns or throws; the value-proposition
\* agent's call can also return JSON of another shape
AgentSettle(t) ==
  /\ pc = "phase4"
  /\ agents[t].st = "pending"
  /\ \/ \E outcome \in ServiceOutcomes :
          /\ agents' = [agents EXCEPT ![t] = TaskResult(t, outcome)]
          /\ CountError(outcome)
     \/ /\ t = "ValueProps"
        /\ serviceErrors < MaxServiceErrors
        /\ \E shape \in MalformedShapes :
             agents' = [agents EXCEPT ![t] = StructuredResult(t, shape)]
        /\ serviceErrors' = serviceErrors + 1
  /\ firstSettled' = IF firstSettled = "none" THEN t ELSE firstSettled
  /\ UNCHANGED <<records, readOnly, cache, pc, error, watchdogInterval,
                 extractors, locals, entered, coherenceCalls, stopVars>>

\* aggregation reached with the validation step left out
Phase4Join_skipValidation ==
  /\ pc = "phase4"
  /\ JoinRejected(agents) \/ JoinReady(agents)
  /\ IF JoinRejected(agents)
       THEN /\ Throw(ErrAgent(RejectedTask(agents)))
            /\ UNCHANGED coverLetterData
       ELSE /\ coverLetterData' =
                 Aggregate(PromiseAll(Agents, agents, firstSettled))
            /\ pc' = "progress7"
            /\ UNCHANGED <<error, watchdogInterval>>
  /\ UNCHANGED <<records, readOnly, cache, tasks, matchedAccomplishments,
                 resumeValidatedContent, validationResult,
                 polishedCoverLetterData, validatedContent, entered,
                 coherenceCalls, serviceErrors, stopVars>>

\* Promise.all of Phase 4 resumes execute: aggregation, template check, then
\* the progress write of step 6 is awaited
Phase4Join ==
  /\ pc = "phase4"
  /\ JoinRejected(agents) \/ JoinReady(agents)
  /\ IF JoinRejected(agents)
       THEN /\ Throw(ErrAgent(RejectedTask(agents)))
            /\ UNCHANGED coverLetterData
       ELSE /\ coverLetterData' =
                 Aggregate(PromiseAll(Agents, agents, firstSettled))
            /\ pc' = "progress6"
            /\ UNCHANGED <<error, watchdogInterval>>
  /\ UNCHANGED <<records, readOnly, cache, tasks, matchedAccomplishments,
                 resumeValidatedContent, validationResult,
                 polishedCoverLetterData, validatedContent, entered,
                 coherenceCalls, serviceErrors, stopVars>>

\* Step 6: progress write, then validateAgainstResume (no external call)
Progress6 ==
  /\ pc = "progress6"
  /\ \/ /\ ProgressWrite("Validating against resume", 6)
        /\ resumeValidatedContent' = ValidatedContentOf(coverLetterData)
        /\ \E score \in ValidationScores :
             /\ ~hasDocuments => score = 85
             /\ validationResult' =
                  [isValid |-> score >= 70, score |-> score, made |-> TRUE]
        /\ firstSettled' = "none"
        /\ pc' = "progress7"
        /\ UNCHANGED <<error, watchdogInterval>>
     \/ /\ Throw(ErrStore)
        /\ UNCHANGED <<pipelineRun, entered, resumeValidatedContent,
                       validationResult, firstSettled>>
  /\ UNCHANGED <<coverLetter, jobDescription, readOnly, cache,
                 extractors, agents, matchedAccomplishments, coverLetterData,
                 polishedCoverLetterData, validatedContent, coherenceCalls,
                 serviceErrors, stopVars>>

\* Step 7: progress write, then the coherence call is issued
Progress7 ==
  /\ pc = "progress7"
  /\ \/ /\ ProgressWrite("Coherence analysis", 7)
        /\ coherenceCalls' = coherenceCalls + 1
        /\ pc' = "coherence"
        /\ UNCHANGED <<error, watchdogInterval>>
     \/ /\ Throw(ErrStore)
        /\ UNCHANGED <<pipelineRun, entered, coherenceCalls>>
  /\ UNCHANGED <<coverLetter, jobDescription, readOnly, cache, tasks,
                 locals, serviceErrors, stopVars>>

\* the coherence call issued again after it threw
CoherenceRefinement_retry ==
  /\ pc = "coherence"
  /\ \E outcome \in ServiceOutcomes \cup {"null", "rekeyed"} :
       /\ CountError(outcome)
       /\ polishedCoverLetterData' =
            IF outcome = "null" THEN NoContent
            ELSE CoherenceResult(resumeValidatedContent, outcome)
       /\ pc' = IF outcome = "throw" THEN "progress7" ELSE "progress8"
  /\ UNCHANGED <<records, readOnly, cache, error, watchdogInterval, tasks,
                 matchedAccomplishments, coverLetterData,
                 resumeValidatedContent, validationResult, validatedContent,
                 entered, coherenceCalls, stopVars>>

\* the coherence call returns JSON text with the draft's keys, JSON text with
\* other keys, the JSON text null, or throws (own try/catch: the draft is
\* returned)
CoherenceRefinement ==
  /\ pc = "coherence"
  /\ \E outcome \in ServiceOutcomes \cup {"null", "rekeyed"} :
       /\ CountError(outcome)
       /\ polishedCoverLetterData' =
            IF outcome = "null" THEN NoContent
            ELSE CoherenceResult(resumeValidatedContent, outcome)
  /\ pc' = "progress8"
  /\ UNCHANGED <<records, readOnly, cache, error, watchdogInterval, tasks,
                 matchedAccomplishments, coverLetterData,
                 resumeValidatedContent, validationResult, validatedContent,
                 entered, coherenceCalls, stopVars>>

\* Step 8: progress write, then wordCountValidator, whose Object.entries
\* throws on a null section map
Progress8 ==
  /\ pc = "progress8"
  /\ \/ /\ ProgressWrite("Validating word count", 8)
        /\ IF polishedCoverLetterData = NoContent
             THEN /\ Throw(ErrCoherenceNull)
                  /\ UNCHANGED validatedContent
             ELSE /\ validatedContent' =
                       WordCountValidated(polishedCoverLetterData)
                  /\ pc' = "progress9"
                  /\ UNCHANGED <<error, watchdogInterval>>
     \/ /\ Throw(ErrStore)
        /\ UNCHANGED <<pipelineRun, entered, validatedContent>>
  /\ UNCHANGED <<coverLetter, jobDescription, readOnly, cache, tasks,
                 matchedAccomplishments, coverLetterData,
                 resumeValidatedContent, validationResult,
                 polishedCoverLetterData, coherenceCalls, serviceErrors,
                 stopVars>>

Progress9 ==
  /\ pc = "progress9"
  /\ \/ /\ ProgressWrite("Finalizing Document", 9)
        /\ pc' = "updateCoverLetter"
        /\ UNCHANGED <<error, watchdogInterval>>
     \/ /\ Throw(ErrStore)
        /\ UNCHANGED <<pipelineRun, entered>>
  /\ UNCHANGED <<coverLetter, jobDescription, readOnly, cache, tasks,
                 locals, coherenceCalls, serviceErrors, stopVars>>

\* the final cover-letter update: content, scores and status in one write
UpdateCoverLetter ==
  /\ pc = "updateCoverLetter"
  /\ \/ /\ coverLetter' =
             [content |-> FinalContent(validatedContent, polishedCoverLetterData),
              qualityScore |-> Overall(validationResult.score),
              validationScore |-> validationResult.score,
              status |-> FinalStatus(validationResult.score)]
        /\ pc' = "getPipelineRun"
        /\ UNCHANGED <<error, watchdogInterval>>
     \/ /\ Throw(ErrStore)
        /\ UNCHANGED coverLetter
  /\ UNCHANGED <<pipelineRun, jobDescription, readOnly, cache, tasks,
                 locals, entered, coherenceCalls, serviceErrors, stopVars>>

GetPipelineRun ==
  /\ pc = "getPipelineRun"
  /\ \/ /\ pc' = "updatePipelineRun"
        /\ UNCHANGED <<error, watchdogInterval>>
     \/ Throw(ErrStore)
  /\ UNCHANGED <<records, readOnly, cache, tasks, locals, entered,
                 coherenceCalls, serviceErrors, stopVars>>

\* the final run update; execute then clears the watchdog and returns
UpdatePipelineRun ==
  /\ pc = "updatePipelineRun"
  /\ \/ /\ pipelineRun' = [pipelineRun EXCEPT !.status = "completed",
                                              !.progress = 100]
        /\ watchdogInterval' = "cleared"
        /\ pc' = "returned"
        /\ UNCHANGED error
     \/ /\ Throw(ErrStore)
        /\ UNCHANGED pipelineRun
  /\ UNCHANGED <<coverLetter, jobDescription, readOnly, cache, tasks,
                 locals, entered, coherenceCalls, serviceErrors, stopVars>>

\* ------------------------------------------------------- execute's catch
\* a store call of the catch block that throws makes execute reject with the
\* new error, the remaining writes of the block skipped
CatchGetPipelineRun ==
  /\ pc = "catchGetPipelineRun"
  /\ \/ /\ pc' = "catchUpdatePipelineRun"
        /\ UNCHANGED error
     \/ /\ pc' = "rejected"
        /\ error' = ErrStore
  /\ UNCHANGED <<records, readOnly, cache, watchdogInterval, tasks, locals,
                 entered, coherenceCalls, serviceErrors, stopVars>>

CatchUpdatePipelineRun ==
  /\ pc = "catchUpdatePipelineRun"
  /\ \/ /\ pipelineRun' = [pipelineRun EXCEPT !.status = "failed",
                                              !.agentLogs = error]
        /\ pc' = "catchUpdateCoverLetter"
        /\ UNCHANGED error
     \/ /\ pc' = "rejected"
        /\ error' = ErrStore
        /\ UNCHANGED pipelineRun
  /\ UNCHANGED <<coverLetter, jobDescription, readOnly, cache,
                 watchdogInterval, tasks, locals, entered, coherenceCalls,
                 serviceErrors, stopVars>>

CatchUpdateCoverLetter ==
  /\ pc = "catchUpdateCoverLetter"
  /\ \/ /\ coverLetter' = [coverLetter EXCEPT !.status = "failed"]
        /\ UNCHANGED error
     \/ /\ error' = ErrStore
        /\ UNCHANGED coverLetter
  /\ pc' = "rejected"
  /\ UNCHANGED <<pipelineRun, jobDescription, readOnly, cache,
                 watchdogInterval, tasks, locals, entered, coherenceCalls,
                 serviceErrors, stopVars>>

\* ------------------------------------------ POST /api/cover-letters/:id/stop
pipelineVars == <<readOnly, cache, pc, error, watchdogInterval, tasks,
                  locals, entered, coherenceCalls, serviceErrors>>

StopRequest ==
  /\ pc /= "created"
  /\ stopPc = "idle"
  /\ stopCount < MaxStops
  /\ stopPc' = "getCoverLetter"
  /\ stopCount' = stopCount + 1
  /\ UNCHANGED <<records, pipelineVars, stopHandled>>

\* getCoverLetter, then the 400 answer for a finished cover letter
StopGetCoverLetter ==
  /\ stopPc = "getCoverLetter"
  /\ \/ stopPc' = IF coverLetter.status \in TerminalStatus
                    THEN "idle" ELSE "updateCoverLetter"
     \/ stopPc' = "idle"
  /\ UNCHANGED <<records, pipelineVars, stopCount, stopHandled>>

StopUpdateCoverLetter ==
  /\ stopPc = "updateCoverLetter"
  /\ \/ /\ coverLetter' = [coverLetter EXCEPT !.status = "failed"]
        /\ stopPc' = "getPipelineRun"
     \/ /\ stopPc' = "idle"
        /\ UNCHANGED coverLetter
  /\ UNCHANGED <<pipelineRun, jobDescription, pipelineVars, stopCount,
                 stopHandled>>

StopGetPipelineRun ==
  /\ stopPc = "getPipelineRun"
  /\ \/ stopPc' = "updatePipelineRun"
     \/ stopPc' = "idle"
  /\ UNCHANGED <<records, pipelineVars, stopCount, stopHandled>>

StopUpdatePipelineRun ==
  /\ stopPc = "updatePipelineRun"
  /\ \/ /\ pipelineRun' = [pipelineRun EXCEPT !.status = "stopped"]
        /\ stopHandled' = TRUE
     \/ UNCHANGED <<pipelineRun, stopHandled>>
  /\ stopPc' = "idle"
  /\ UNCHANGED <<coverLetter, jobDescription, pipelineVars, stopCount>>

\* the interval callback: one console.log line
WatchdogTick ==
  /\ watchdogInterval = "active"
  /\ watchdogTicks < MaxTicks
  /\ watchdogTicks' = watchdogTicks + 1
  /\ UNCHANGED <<records, hasDocuments, cache, pc, error, watchdogInterval,
                 tasks, locals, entered, coherenceCalls, serviceErrors,
                 stopVars, cacheVars, validatorVars, trimmerVars, uploadVars>>

\* ------------------------------------------------------------------- Next
\* the steps of execute(), and the steps of a stop request being handled
ExecuteStep ==
  \/ ExecuteStart
  \/ GetCoverLetter
  \/ GetJobDescriptions
  \/ Progress1
  \/ \E t \in ExtractorSet : ExtractorSettle(t)
  \/ Phase1Join
  \/ UpdateJobDescription
  \/ Progress2
  \/ RawStyleGuideContent
  \/ RawResumeContent
  \/ GenerateEmbeddings
  \/ Progress3
  \/ MapAccomplishments
  \/ Progress4
  \/ \E t \in AgentSet : AgentSettle(t)
  \/ Phase4Join
  \/ Progress6
  \/ Progress7
  \/ CoherenceRefinement
  \/ Progress8
  \/ Progress9
  \/ UpdateCoverLetter
  \/ GetPipelineRun
  \/ UpdatePipelineRun
  \/ CatchGetPipelineRun
  \/ CatchUpdatePipelineRun
  \/ CatchUpdateCoverLetter

StopHandlerStep ==
  \/ StopGetCoverLetter
  \/ StopUpdateCoverLetter
  \/ StopGetPipelineRun
  \/ StopUpdatePipelineRun

Next ==
  \/ ExecuteStart
  \/ GetCoverLetter
  \/ GetJobDescriptions
  \/ Progress1
  \/ \E t \in ExtractorSet : ExtractorSettle(t)
  \/ Phase1Join
  \/ UpdateJobDescription
  \/ Progress2
  \/ RawStyleGuideContent
  \/ RawResumeContent
  \/ GenerateEmbeddings
  \/ Progress3
  \/ MapAccomplishments
  \/ Progress4
  \/ \E t \in AgentSet : AgentSettle(t)
  \/ Phase4Join
  \/ Progress6
  \/ Progress7
  \/ CoherenceRefinement
  \/ Progress8
  \/ Progress9
  \/ UpdateCoverLetter
  \/ GetPipelineRun
  \/ UpdatePipelineRun
  \/ CatchGetPipelineRun
  \/ CatchUpdatePipelineRun
  \/ CatchUpdateCoverLetter
  \/ StopRequest
  \/ StopGetCoverLetter
  \/ StopUpdateCoverLetter
  \/ StopGetPipelineRun
  \/ StopUpdatePipelineRun
  \/ WatchdogTick

Spec == Init /\ [][Next]_vars

\* every awaited call eventually returns or throws, in execute() and in the
\* stop route's handler; nothing obliges a caller to send a stop request
FairSpec == Spec /\ WF_vars(ExecuteStep) /\ WF_vars(StopHandlerStep)

\* everything execute(), the stop route and the watchdog work on
executeVars == <<records, hasDocuments, watchdogTicks, cache, pc, error,
                 watchdogInterval, tasks, locals, entered, coherenceCalls,
                 serviceErrors, stopVars>>

\* the bookkeeping of one call into the cache module
Called(op, u, k, result, hit, raised, found, failed) ==
  /\ lastCall' = [op |-> op, user |-> u, key |-> k, result |-> result,
                  hit |-> hit, raised |-> raised, found |-> found,
                  failed |-> failed]
  /\ cacheCalls' = cacheCalls + 1

\* getRaw / getProcessed of the three caches: cache.get(cacheKey)
TierGet(u, k) ==
  /\ cacheCalls < MaxCacheCalls
  /\ store' = AfterGet(store, k, now)
  /\ Called("get", u, k, GetData(store, k, now),
            GetData(store, k, now) /= NoData, FALSE, store[k].data, "none")
  /\ UNCHANGED <<now, clockAdvances, executeVars, validatorVars,
                 trimmerVars, uploadVars>>

\* getRawStyleGuideContent / getRawResumeContent: the store they leave
RawStore(s, d, u, rows, t) ==
  LET k == DomainKey(d, u, "_raw")
      s1 == AfterGet(s, k, t)
  IN IF GetData(s, k, t) /= NoData \/ rows = "throw" THEN s1
     ELSE CacheSet(s1, k, RawContent(d, u, rows), TtlSeconds(d), t)

\* getRawStyleGuideContent / getRawResumeContent: the content returned
RawResult(s, d, u, rows, t) ==
  LET cachedRaw == GetData(s, DomainKey(d, u, "_raw"), t)
  IN IF cachedRaw /= NoData THEN cachedRaw
     ELSE IF rows = "throw" THEN NoData
     ELSE RawContent(d, u, rows)

\* the documents query rejected
RawRaised(s, d, u, rows, t) ==
  GetData(s, DomainKey(d, u, "_raw"), t) = NoData /\ rows = "throw"

GetRawContent(d, u) ==
  /\ cacheCalls < MaxCacheCalls
  /\ \E rows \in DbOutcomes :
       /\ store' = RawStore(store, d, u, rows, now)
       /\ Called("getRawContent", u, DomainKey(d, u, "_raw"),
                 RawResult(store, d, u, rows, now),
                 GetData(store, DomainKey(d, u, "_raw"), now) /= NoData,
                 RawRaised(store, d, u, rows, now),
                 store[DomainKey(d, u, "_raw")].data,
                 IF RawRaised(store, d, u, rows, now) THEN "documents"
                 ELSE "none")
  /\ UNCHANGED <<now, clockAdvances, executeVars, validatorVars,
                 trimmerVars, uploadVars>>

\* analyzeStyleGuide / generateEmbeddings
ComputeProcessed(d, u) ==
  /\ cacheCalls < MaxCacheCalls
  /\ LET pk == DomainKey(d, u, "_processed")
         cached == GetData(store, pk, now)
         s1 == AfterGet(store, pk, now)
     IN IF ValidateProcessedSchema(d, cached)
          THEN /\ store' = s1
               /\ Called("compute", u, pk, cached, TRUE, FALSE, cached, "none")
          ELSE \E rows \in DbOutcomes, outcome \in ComputeOutcomes :
                 LET s2 == RawStore(s1, d, u, rows, now)
                     raw == RawResult(s1, d, u, rows, now)
                 IN IF RawRaised(s1, d, u, rows, now)
                      THEN /\ store' = s2
                           /\ Called("compute", u, pk, NoData, FALSE, TRUE,
                                     cached, "documents")
                    ELSE IF d = "Resume" /\ raw.kind = "rawDefault"
                      THEN /\ store' = CacheSet(s2, pk, DefaultEmbeddings(u),
                                                TtlSeconds(d), now)
                           /\ Called("compute", u, pk, DefaultEmbeddings(u),
                                     FALSE, FALSE, cached, "none")
                    ELSE IF outcome = "throw"
                      THEN /\ store' = s2
                           /\ Called("compute", u, pk, NoData, FALSE, TRUE,
                                     cached, "compute")
                    ELSE /\ store' = CacheSet(s2, pk, Processed(d, u, outcome),
                                              TtlSeconds(d), now)
                         /\ Called("compute", u, pk, Processed(d, u, outcome),
                                   FALSE, FALSE, cached, "none")
  /\ UNCHANGED <<now, clockAdvances, executeVars, validatorVars,
                 trimmerVars, uploadVars>>

\* step 3 of execute(): CoverLetterDataCache.get, and on a miss
\* mapAccomplishmentsToRequirements followed by CoverLetterDataCache.set
LoadMapping(u, job) ==
  /\ cacheCalls < MaxCacheCalls
  /\ LET pk == LetterKey(job, u, "_processed")
         rk == LetterKey(job, u, "_raw")
         cachedProcessed == GetData(store, pk, now)
         s1 == AfterGet(store, pk, now)
         cachedRaw == GetData(s1, rk, now)
         s2 == AfterGet(s1, rk, now)
         ttl == TtlSeconds("CoverLetter")
     IN IF ValidateProcessedSchema("CoverLetter", cachedProcessed)
          THEN /\ store' = s1
               /\ Called("loadMapping", u, pk, cachedProcessed, TRUE, FALSE,
                         cachedProcessed, "none")
        ELSE IF cachedRaw /= NoData
          THEN /\ store' = s2
               /\ Called("loadMapping", u, pk, cachedRaw, TRUE, FALSE,
                         cachedProcessed, "none")
        ELSE \E outcome \in {"text", "throw"} :
               /\ store' = CacheSet(CacheSet(s2, rk, Mapping(u, outcome), ttl,
                                             now),
                                    pk, Mapping(u, outcome), ttl, now)
               /\ Called("loadMapping", u, pk, Mapping(u, outcome), FALSE,
                         FALSE, cachedProcessed,
                         IF outcome = "throw" THEN "compute" ELSE "none")
  /\ UNCHANGED <<now, clockAdvances, executeVars, validatorVars,
                 trimmerVars, uploadVars>>

\* invalidateUserCaches, called by the upload route
InvalidateUserCaches(u) ==
  /\ cacheCalls < MaxCacheCalls
  /\ LET s1 == CacheDelete(CacheDelete(store,
                                       DomainKey("StyleGuide", u, "_raw")),
                           DomainKey("StyleGuide", u, "_processed"))
         s2 == CacheDelete(CacheDelete(s1, DomainKey("Resume", u, "_raw")),
                           DomainKey("Resume", u, "_processed"))
         matchingKeys == GetKeysMatching(s2, UserCachePattern(u))
     IN store' = [k \in DOMAIN s2 |->
                   IF k \in matchingKeys THEN NoEntry ELSE s2[k]]
  /\ Called("invalidate", u, <<>>, NoData, FALSE, FALSE, NoData, "none")
  /\ UNCHANGED <<now, clockAdvances, executeVars, validatorVars,
                 trimmerVars, uploadVars>>

\* Date.now() moves on between two calls, once something is stored
AdvanceClock ==
  /\ clockAdvances < MaxAdvances
  /\ cacheCalls < MaxCacheCalls
  /\ \E k \in AllKeys : store[k] /= NoEntry
  /\ \E dt \in ClockSteps : now' = now + dt
  /\ clockAdvances' = clockAdvances + 1
  /\ UNCHANGED <<store, lastCall, cacheCalls, executeVars, validatorVars,
                 trimmerVars, uploadVars>>

\* the cache module used by several users, no pipeline run going on
CacheInit ==
  /\ Init
  /\ jobDescription.found
  /\ hasDocuments

CacheNext ==
  \/ \E u \in Users : \E k \in KeysOf(u) : TierGet(u, k)
  \/ \E d \in Domains, u \in Users : GetRawContent(d, u)
  \/ \E d \in Domains, u \in Users : ComputeProcessed(d, u)
  \/ \E u \in Users, job \in Jobs : LoadMapping(u, job)
  \/ \E u \in Users : InvalidateUserCaches(u)
  \/ AdvanceClock

CacheSpec == CacheInit /\ [][CacheNext]_vars

\* ------------------------------------------------- the resume validator
\* sample resume lines and candidate sentences
LineLedTeam == "Led a team of 12 engineers, reducing deployment time by 40%"
LineSenior == "Senior Engineer at Acme Corp with 5 years experience"
LinePython == "Python"
ResumeLines == {LineLedTeam, LineSenior, LinePython}
SentenceILed == "I led a team of 12 engineers"
SentenceAa == "Aa"
SentenceBB == "BB"
SentenceBananas == "Bananas rock"
SentenceMaster == "Master of Science"
SentenceSenior == LineSenior
SentenceSincerely == "Sincerely yours"
SentenceAcme == "Acme rocks"
\* two sentences with the same hashSentence value
SentenceDeployment == "deployment time by 40"
SentenceGibberish == "zq xj wxxjxjxxxkj"
Sentences == {SentenceILed, SentenceAa, SentenceBB, SentenceBananas,
              SentenceMaster, SentenceSenior, SentenceSincerely, SentenceAcme,
              SentenceDeployment, SentenceGibberish}

\* resume documents of up to MaxLines lines, sentence lists of up to
\* MaxSentences sentences
Documents == UNION {[1..n -> ResumeLines] : n \in 0..MaxLines}
SentenceLists == UNION {[1..n -> Sentences] : n \in 0..MaxSentences}

UpperCaseLetters == "ABCDEFGHIJKLMNOPQRSTUVWXYZ"
LowerCaseLetters == "abcdefghijklmnopqrstuvwxyz"
DigitLetters == "0123456789"
\* the characters with codes 32..95 and 97..126, in code order
AsciiLow ==
  " !\"#$%&'()*+,-./0123456789:;<=>?@ABCDEFGHIJKLMNOPQRSTUVWXYZ[\\]^_"
AsciiHigh == "abcdefghijklmnopqrstuvwxyz{|}~"

\* the i-th character of a string
CharAt(t, i) == SubSeq(t, i, i)

\* position of a character in a string, 0 when it is not there
IndexIn(t, c) ==
  IF \E i \in 1..Len(t) : CharAt(t, i) = c
    THEN CHOOSE i \in 1..Len(t) : CharAt(t, i) = c
    ELSE 0

\* charCodeAt
CharCode(c) ==
  IF IndexIn(AsciiLow, c) > 0 THEN 31 + IndexIn(AsciiLow, c)
  ELSE 96 + IndexIn(AsciiHigh, c)

LowerChar(c) ==
  IF IndexIn(UpperCaseLetters, c) > 0
    THEN CharAt(LowerCaseLetters, IndexIn(UpperCaseLetters, c))
    ELSE c

\* toLowerCase()
RECURSIVE ToLowerCase(_)
ToLowerCase(t) ==
  IF Len(t) = 0 THEN ""
  ELSE IF Len(t) = 1 THEN LowerChar(t)
  ELSE LET half == Len(t) \div 2
       IN ToLowerCase(SubSeq(t, 1, half))
            \o ToLowerCase(SubSeq(t, half + 1, Len(t)))

\* \s on the sample texts, whose only whitespace is the space
IsSpace(c) == c = " "

\* replace(/\s+/g, rep) on the characters from..to of t: every run of
\* whitespace becomes one rep
RECURSIVE ReplaceSpaceRunsIn(_, _, _, _)
ReplaceSpaceRunsIn(t, rep, from, to) ==
  IF from > to THEN ""
  ELSE IF from = to
    THEN (IF ~IsSpace(CharAt(t, from)) THEN CharAt(t, from)
          ELSE IF from > 1 /\ IsSpace(CharAt(t, from - 1)) THEN ""
          ELSE rep)
  ELSE LET half == (from + to) \div 2
       IN ReplaceSpaceRunsIn(t, rep, from, half)
            \o ReplaceSpaceRunsIn(t, rep, half + 1, to)

ReplaceSpaceRuns(t, rep) == ReplaceSpaceRunsIn(t, rep, 1, Len(t))

\* trim()
RECURSIVE TrimStart(_)
TrimStart(t) ==
  IF t /= "" /\ IsSpace(Head(t)) THEN TrimStart(Tail(t)) ELSE t

RECURSIVE TrimEnd(_)
TrimEnd(t) ==
  IF t /= "" /\ IsSpace(CharAt(t, Len(t)))
    THEN TrimEnd(SubSeq(t, 1, Len(t) - 1)) ELSE t

Trim(t) == TrimEnd(TrimStart(t))

\* replace(/[...]/g, '') with the class given by the string chars, negated
\* when keep is TRUE
RECURSIVE RemoveClass(_, _, _)
RemoveClass(t, chars, keep) ==
  IF Len(t) = 0 THEN ""
  ELSE IF Len(t) = 1
    THEN (IF (IndexIn(chars, t) > 0) = keep THEN t ELSE "")
  ELSE LET half == Len(t) \div 2
       IN RemoveClass(SubSeq(t, 1, half), chars, keep)
            \o RemoveClass(SubSeq(t, half + 1, Len(t)), chars, keep)

\* normalizeText
NormalizeText(text) ==
  LET lower == ToLowerCase(text)
      stripped == RemoveClass(lower, "$%.,", FALSE)
      joined == ReplaceSpaceRuns(stripped, "_")
  IN RemoveClass(joined, LowerCaseLetters \o DigitLetters \o "_", TRUE)

\* a 32-bit integer kept as two 16-bit halves
HashStep(hash, low) ==
  [hi |-> (31 * hash.hi + (low \div 65536)) % 65536, lo |-> low % 65536]

\* the loop of hashSentence over the characters from..to, left to right:
\* the hash after the first half is the hash the second half starts from
RECURSIVE HashRange(_, _, _, _)
HashRange(text, from, to, hash) ==
  IF from > to THEN hash
  ELSE IF from = to
    THEN HashStep(hash, 31 * hash.lo + CharCode(CharAt(text, from)))
  ELSE CHOOSE result \in
         {HashRange(text, (from + to) \div 2 + 1, to, firstHalf) :
            firstHalf \in {HashRange(text, from, (from + to) \div 2, hash)}} :
         TRUE

\* hashSentence: hash = ((hash << 5) - hash) + char; hash = hash & hash
HashSentence(text) == HashRange(text, 1, Len(text), [hi |-> 0, lo |-> 0])

\* split(sep) as a set: the pieces between separators, empty ones included
PiecesBetween(t, cuts) ==
  {SubSeq(t, p[1] + 1, p[2] - 1) :
     p \in {q \in cuts \X cuts :
              /\ q[1] < q[2]
              /\ ~\E c \in cuts : q[1] < c /\ c < q[2]}}

SplitSet(t, sep) ==
  PiecesBetween(t, {0, Len(t) + 1}
                     \cup {i \in 1..Len(t) : CharAt(t, i) = sep})

\* a ratio intersection.size / union.size
Ratio(setA, setB) ==
  [num |-> Cardinality(setA \cap setB), den |-> Cardinality(setA \cup setB)]

\* r >= n/d, and r > n/d
AtLeast(r, n, d) == r.num * d >= n * r.den
MoreThan(r, n, d) == r.num * d > n * r.den
Greater(r, s) == r.num * s.den > s.num * r.den

\* if (similarity > best) best = similarity
Better(similarity, best) == IF Greater(similarity, best) THEN similarity ELSE best

\* jaccardSimilarity on the "_"-separated pieces
JaccardSimilarity(a, b) == Ratio(SplitSet(a, "_"), SplitSet(b, "_"))

\* the word lists of the role, achievement and skill patterns
RolePattern ==
  {"director", "manager", "lead", "senior", "principal", "vp", "ceo", "cto",
   "engineer", "analyst", "specialist", "coordinator", "consultant",
   "associate", "intern", "developer", "designer", "architect", "officer",
   "executive", "administrator", "supervisor"}
AchievementPattern ==
  {"led", "managed", "built", "created", "developed", "implemented",
   "increased", "decreased", "improved", "optimized", "reduced", "delivered",
   "achieved", "exceeded", "streamlined", "coordinated", "facilitated",
   "spearheaded", "oversaw", "established", "launched", "designed",
   "executed", "collaborated", "contributed", "resolved", "enhanced",
   "modernized", "automated", "scaled"}
SkillPattern ==
  {"experience", "proficient", "skilled", "expert", "knowledge", "familiar",
   "certification", "training", "education", "degree", "diploma"}
StandardElements ==
  {"dear", "hiring", "team", "manager", "sincerely", "regards", "excited",
   "thrilled", "opportunity", "position", "application", "interview",
   "contribution", "experience", "skills", "background", "qualifications"}
ActionVerbs ==
  {"led", "managed", "developed", "implemented", "created", "built",
   "designed", "coordinated", "facilitated", "achieved", "delivered",
   "improved", "optimized", "streamlined", "established", "launched"}

\* /(a|b|...)/i.test(text), and list.some(w => lower.includes(w))
ContainsAny(text, words) ==
  LET lower == ToLowerCase(text)
  IN \E w \in words : Includes(lower, w)

\* metricPattern.exec(line): the index of each match in the sample lines
MetricIndexes(line) ==
  CASE line = LineLedTeam -> <<56>>
    [] line = LineSenior -> <<34>>
    [] OTHER -> <<>>

\* /[A-Z][a-z]+ [A-Z][a-z]+/.test(line) on the sample lines
HasCapitalizedPair(line) == line = LineSenior

\* professionalPatterns.some(pattern => pattern.test(sentence)) on the
\* sample sentences
MatchesProfessionalPattern(sentence) ==
  sentence \in {SentenceMaster, SentenceSenior}

Max(a, b) == IF a > b THEN a ELSE b
Min(a, b) == IF a < b THEN a ELSE b

\* getContext(text, index, radius); index counts from 0
GetContext(text, index, radius) ==
  Trim(SubSeq(text, Max(0, index - radius) + 1,
              Min(Len(text), index + radius)))

\* one entry of resumePhrases
Phrase(text, type) ==
  [text |-> text, normalized |-> NormalizeText(text), type |-> type]

NoPhrase == [text |-> "", normalized |-> "", type |-> "none"]

\* the body of lines.forEach in extractResumePhrases
PhrasesFrom(line, trimmedLine, normalized, metrics) ==
  IF Len(trimmedLine) < 10 THEN <<>>
  ELSE [i \in 1..Len(metrics) |->
          Phrase(GetContext(line, metrics[i], 25), "metric")]
       \o (IF ContainsAny(line, RolePattern)
             THEN <<[text |-> trimmedLine, normalized |-> normalized,
                     type |-> "role"]>>
             ELSE <<>>)
       \o (IF ContainsAny(line, AchievementPattern)
             THEN <<[text |-> trimmedLine, normalized |-> normalized,
                     type |-> "achievement"]>>
             ELSE <<>>)
       \o (IF ContainsAny(line, SkillPattern)
             THEN <<[text |-> trimmedLine, normalized |-> normalized,
                     type |-> "skill"]>>
             ELSE <<>>)
       \o (IF Len(line) > 20 /\ HasCapitalizedPair(line)
             THEN <<[text |-> trimmedLine, normalized |-> normalized,
                     type |-> "achievement"]>>
             ELSE <<>>)

PhrasesOfLine(line) ==
  PhrasesFrom(line, Trim(line), NormalizeText(Trim(line)), MetricIndexes(line))

\* extractResumePhrases over the lines of the document
RECURSIVE ExtractResumePhrases(_)
ExtractResumePhrases(doc) ==
  IF doc = <<>> THEN <<>>
  ELSE PhrasesOfLine(Head(doc)) \o ExtractResumePhrases(Tail(doc))

\* the lenient branch taken below three phrases
LenientMode_belowThree(phrases) == Len(phrases) < 3

\* if (this.resumePhrases.length < 5)
LenientMode(phrases) == Len(phrases) < 5

\* a validateSentence result; tier names the step that produced it
Result(supported, num, den, tier) ==
  [supported |-> supported, confidence |-> [num |-> num, den |-> den],
   tier |-> tier]

NoResult == Result(FALSE, 0, 1, "none")

\* this.cache[sentHash]
CacheLookup(vcache, hash) ==
  IF \E e \in vcache : e.hash = hash
    THEN (CHOOSE e \in vcache : e.hash = hash).result
    ELSE NoResult

\* this.cache[sentHash] = result
CacheStore(vcache, hash, result) ==
  {e \in vcache : e.hash /= hash} \cup {[hash |-> hash, result |-> result]}

\* the Jaccard loop of tier 3: the best similarity over the phrases
RECURSIVE BestSimilarity(_, _, _)
BestSimilarity(normalized, phrases, best) ==
  IF phrases = <<>> THEN best
  ELSE BestSimilarity(normalized, Tail(phrases),
         Better(JaccardSimilarity(normalized, Head(phrases).normalized), best))

\* sentence.toLowerCase().split(/\s+/) as a set
WordSet(text) == SplitSet(ReplaceSpaceRuns(ToLowerCase(text), " "), " ")

\* computeSemanticSimilarity
RECURSIVE ComputeSemanticSimilarity(_, _, _)
ComputeSemanticSimilarity(sentence, phrases, best) ==
  IF phrases = <<>> THEN best
  ELSE ComputeSemanticSimilarity(sentence, Tail(phrases),
         Better(Ratio(WordSet(sentence), WordSet(Head(phrases).text)), best))

\* validateSentence past the cache check: tiers 2, 3, the two auto-approvals
\* and tier 4
\* tier 4: supported from 0.1 on, confidence Math.max(semanticScore, 0.6)
SemanticResult(semanticScore) ==
  IF AtLeast(semanticScore, 6, 10)
    THEN Result(AtLeast(semanticScore, 1, 10), semanticScore.num,
                semanticScore.den, "semantic")
    ELSE Result(AtLeast(semanticScore, 1, 10), 6, 10, "semantic")

\* tier 3 and what follows it, given the best Jaccard similarity
AfterJaccard(sentence, phrases, bestSimilarity) ==
  IF AtLeast(bestSimilarity, 15, 100)
    THEN Result(TRUE, bestSimilarity.num, bestSimilarity.den, "jaccard")
  ELSE IF \/ ContainsAny(sentence, StandardElements)
          \/ ContainsAny(sentence, ActionVerbs)
    THEN Result(TRUE, 85, 100, "allowList")
  ELSE IF MatchesProfessionalPattern(sentence)
    THEN Result(TRUE, 80, 100, "professional")
  ELSE SemanticResult(ComputeSemanticSimilarity(sentence, phrases,
                                                [num |-> 0, den |-> 1]))

\* tier 2 and what follows it, given the normalized sentence
AfterNormalize(sentence, phrases, normalized) ==
  IF \E i \in 1..Len(phrases) :
       /\ phrases[i].normalized /= ""
       /\ Includes(normalized, phrases[i].normalized)
    THEN Result(TRUE, 1, 1, "exact")
    ELSE AfterJaccard(sentence, phrases,
                      BestSimilarity(normalized, phrases,
                                     [num |-> 0, den |-> 1]))

Cascade(sentence, phrases) ==
  AfterNormalize(sentence, phrases, NormalizeText(sentence))

\* validateSentence: the result and the cache it leaves
\* tier 1 hit: the cached result is returned and the cache is left alone
CacheHit(found, vcache) ==
  [result |-> found, cache |-> vcache, cached |-> TRUE]

\* tier 1 miss: the computed result is stored under the hash and returned
CacheMiss(computed, vcache, sentHash) ==
  [result |-> computed, cache |-> CacheStore(vcache, sentHash, computed),
   cached |-> FALSE]

ValidateHashed(sentence, phrases, vcache, sentHash) ==
  IF \E e \in vcache : e.hash = sentHash
    THEN CacheHit(CacheLookup(vcache, sentHash), vcache)
    ELSE CacheMiss(Cascade(sentence, phrases), vcache, sentHash)

ValidateSentence(sentence, phrases, vcache) ==
  ValidateHashed(sentence, phrases, vcache, HashSentence(sentence))

\* findBestMatch: the phrase with the best Jaccard score, if above 0.5
RECURSIVE BestMatch(_, _, _)
\* the running pair of findBestMatch after one phrase
BetterMatch(score, phrase, best) ==
  IF Greater(score, best.score) THEN [score |-> score, match |-> phrase]
  ELSE best

BestMatch(normalized, phrases, best) ==
  IF phrases = <<>>
    THEN (IF MoreThan(best.score, 5, 10) THEN best.match ELSE NoPhrase)
  ELSE BestMatch(normalized, Tail(phrases),
         BetterMatch(JaccardSimilarity(normalized, Head(phrases).normalized),
                     Head(phrases), best))

FindBestMatch(sentence, phrases) ==
  BestMatch(NormalizeText(sentence), phrases,
            [score |-> [num |-> 0, den |-> 1], match |-> NoPhrase])

\* the value of 0 / 0
NaN == -1

\* Math.round(Math.max((totalSupported / sentences.length) * 100, 75))
Score(totalSupported, n) ==
  IF n = 0 THEN NaN
  ELSE IF 100 * totalSupported >= 75 * n
    THEN (200 * totalSupported + n) \div (2 * n)
  ELSE 75

\* the for loop of validateSentences
RECURSIVE ValidateLoop(_, _, _)
\* the loop body that flags every sentence, supported or not
LoopBody_flagAll(acc, sentence, validation, bestMatch) ==
  [cache |-> validation.cache,
   calls |-> acc.calls + 1,
   supportedClaims |->
     IF validation.result.supported
       THEN Append(acc.supportedClaims, sentence)
       ELSE acc.supportedClaims,
   flaggedClaims |-> Append(acc.flaggedClaims, sentence),
   corrections |->
     IF ~validation.result.supported /\ bestMatch /= NoPhrase
       THEN Append(acc.corrections,
                   [original |-> sentence, corrected |-> bestMatch.text])
       ELSE acc.corrections,
   results |-> Append(acc.results, validation)]

\* the loop body, given the validation of the sentence and its best match
LoopBody(acc, sentence, validation, bestMatch) ==
  [cache |-> validation.cache,
   calls |-> acc.calls + 1,
   supportedClaims |->
     IF validation.result.supported
       THEN Append(acc.supportedClaims, sentence)
       ELSE acc.supportedClaims,
   flaggedClaims |->
     IF validation.result.supported THEN acc.flaggedClaims
     ELSE Append(acc.flaggedClaims, sentence),
   corrections |->
     IF ~validation.result.supported /\ bestMatch /= NoPhrase
       THEN Append(acc.corrections,
                   [original |-> sentence, corrected |-> bestMatch.text])
       ELSE acc.corrections,
   results |-> Append(acc.results, validation)]

ValidateLoop(sentences, phrases, acc) ==
  IF sentences = <<>> THEN acc
  ELSE ValidateLoop(Tail(sentences), phrases,
         LoopBody(acc, Head(sentences),
                  ValidateSentence(Head(sentences), phrases, acc.cache),
                  FindBestMatch(Head(sentences), phrases)))

\* validateSentences: the report, the cache left behind and the number of
\* validateSentence calls made
\* the return statement of validateSentences after the loop
ScoredReport(loop, score) ==
  [report |-> [isValid |-> score /= NaN /\ score >= 70,
               score |-> score,
               flaggedClaims |-> loop.flaggedClaims,
               supportedClaims |-> loop.supportedClaims,
               corrections |-> loop.corrections],
   cache |-> loop.cache, calls |-> loop.calls, results |-> loop.results]

LoopReport(loop, n) == ScoredReport(loop, Score(Len(loop.supportedClaims), n))

ValidateSentencesResult(sentences, phrases, vcache) ==
  IF LenientMode(phrases)
    THEN [report |-> [isValid |-> TRUE, score |-> 85, flaggedClaims |-> <<>>,
                      supportedClaims |-> sentences, corrections |-> <<>>],
          cache |-> vcache, calls |-> 0, results |-> <<>>]
    ELSE LoopReport(ValidateLoop(sentences, phrases,
                      [cache |-> vcache, calls |-> 0,
                       supportedClaims |-> <<>>, flaggedClaims |-> <<>>,
                       corrections |-> <<>>, results |-> <<>>]),
                    Len(sentences))

\* new OptimizedResumeValidator(resumeContent)
Construct(doc) ==
  /\ validatorState = "none"
  /\ validatorState' = "ready"
  /\ resumePhrases' = ExtractResumePhrases(doc)
  /\ validationCache' = {}
  /\ inputSentences' = <<>>
  /\ report' = [isValid |-> FALSE, score |-> 0, flaggedClaims |-> <<>>,
                supportedClaims |-> <<>>, corrections |-> <<>>]
  /\ sentenceResults' = <<>>
  /\ UNCHANGED <<executeVars, cacheVars, trimmerVars, uploadVars>>

\* the caller receives the report; the instance keeps its cache
Returned(r) ==
  /\ report' = r.report
  /\ validationCache' = r.cache
  /\ sentenceResults' = r.results

\* validator.validateSentences(sentences)
ValidateSentences(sentences) ==
  /\ validatorState = "ready"
  /\ validatorState' = "done"
  /\ Returned(ValidateSentencesResult(sentences, resumePhrases,
                                      validationCache))
  /\ inputSentences' = sentences
  /\ UNCHANGED <<resumePhrases, executeVars, cacheVars, trimmerVars, uploadVars>>

\* one validator per validation step, given one sentence list
ValidatorInit ==
  /\ Init
  /\ jobDescription.found
  /\ hasDocuments

ValidatorNext ==
  \/ \E doc \in Documents : Construct(doc)
  \/ \E sentences \in SentenceLists : ValidateSentences(sentences)

ValidatorSpec == ValidatorInit /\ [][ValidatorNext]_vars

\* --------------------------------------------------- wordCountValidator()
\* the values of a section map: strings, and everything typeof tells apart
\* from a string
Str(t) == [type |-> "string", text |-> t]
NotAString == [type |-> "object", text |-> ""]

\* typeof value === 'string' && value.trim()
IsFilledString(value) == value.type = "string" /\ Trim(value.text) /= ""

\* the positions where a whitespace-separated word of t begins
WordStarts(t) ==
  {i \in 1..Len(t) :
     ~IsSpace(CharAt(t, i)) /\ (i = 1 \/ IsSpace(CharAt(t, i - 1)))}

\* t.trim().split(/\s+/).length; ''.split gives ['']
SplitLength(t) == IF Trim(t) = "" THEN 1 ELSE Cardinality(WordStarts(t))

\* the first loop: the words of the filled strings, in Object.entries order
RECURSIVE TotalWordsFrom(_, _)
TotalWordsFrom(data, i) ==
  IF i > Len(SectionKeys) THEN 0
  ELSE (IF SectionKeys[i] \in DOMAIN data
             /\ IsFilledString(data[SectionKeys[i]])
          THEN SplitLength(data[SectionKeys[i]].text) ELSE 0)
         + TotalWordsFrom(data, i + 1)

TotalWords(data) == TotalWordsFrom(data, 1)

Terminators == {".", "!", "?"}

\* where the matches of /(?<=[.!?])\s+/ in t begin
CutStarts(t) ==
  {u \in 2..Len(t) :
     IsSpace(CharAt(t, u)) /\ CharAt(t, u - 1) \in Terminators}

\* the last character of the whitespace run that begins at u
RunEnd(t, u) ==
  CHOOSE v \in u..Len(t) :
    /\ \A x \in u..v : IsSpace(CharAt(t, x))
    /\ v = Len(t) \/ ~IsSpace(CharAt(t, v + 1))

\* the k-th smallest member of a set of numbers
Nth(set, k) == CHOOSE s \in set : Cardinality({x \in set : x <= s}) = k

\* the piece after the k-th match (k = 0: the piece before the first)
PieceAt(t, cuts, k) ==
  SubSeq(t,
         IF k = 0 THEN 1 ELSE RunEnd(t, Nth(cuts, k)) + 1,
         IF k = Cardinality(cuts) THEN Len(t) ELSE Nth(cuts, k + 1) - 1)

SentencePieces(t, cuts) ==
  [k \in 1..(Cardinality(cuts) + 1) |-> PieceAt(t, cuts, k - 1)]

NonBlank(s) == Trim(s) /= ""

\* t.split(/(?<=[.!?])\s+/).filter(s => s.trim())
SplitSentences(t) == SelectSeq(SentencePieces(t, CutStarts(t)), NonBlank)

\* parts.join(sep)
RECURSIVE Join(_, _)
Join(parts, sep) ==
  IF Len(parts) = 0 THEN ""
  ELSE IF Len(parts) = 1 THEN parts[1]
  ELSE Join(SubSeq(parts, 1, Len(parts) - 1), sep)
         \o sep \o parts[Len(parts)]

\* the priority order with a field of the opening put first
trimOrder_withOpening ==
  <<"OpeningHookParagraph", "PublicSectorInterestParagraph",
    "WhyCompanySentence", "ValueProp4Details", "ValueProp3Details",
    "LeadershipParagraph", "ValueProp2Details", "ValueProp1Details",
    "AlignmentParagraph", "ClosingParagraph">>

\* priority order for trimming
trimOrder == <<"PublicSectorInterestParagraph", "WhyCompanySentence",
               "ValueProp4Details", "ValueProp3Details",
               "LeadershipParagraph", "ValueProp2Details",
               "ValueProp1Details", "AlignmentParagraph",
               "ClosingParagraph">>

\* the while loop of pass 1: sentences leave from the end until the count
\* fits or one sentence remains
RECURSIVE PopSentences(_, _, _)
PopSentences(testSentences, currentWordCount, max) ==
  IF Len(testSentences) > 1 /\ currentWordCount > max
    THEN PopSentences(SubSeq(testSentences, 1, Len(testSentences) - 1),
                      currentWordCount
                        - SplitLength(testSentences[Len(testSentences)]),
                      max)
    ELSE [testSentences |-> testSentences,
          currentWordCount |-> currentWordCount]

\* the field emptied instead of holding the remaining sentences
Popped_emptied(st, field, popped) ==
  [data |-> [st.data EXCEPT ![field] = Str("")],
   currentWordCount |-> popped.currentWordCount]

\* the remaining sentences joined with nothing between them
Popped_unspaced(st, field, popped) ==
  [data |-> [st.data EXCEPT
               ![field] = Str(Join(popped.testSentences, ""))],
   currentWordCount |-> popped.currentWordCount]

\* trimmedData[field] = newText; currentWordCount = newWordCount
Popped(st, field, popped) ==
  [data |-> [st.data EXCEPT
               ![field] = Str(Join(popped.testSentences, " "))],
   currentWordCount |-> popped.currentWordCount]

AfterSplit(st, field, sentences, max) ==
  IF Len(sentences) > 1
    THEN Popped(st, field, PopSentences(sentences, st.currentWordCount, max))
    ELSE st

\* the body of pass 1 for one field of trimOrder
TrimField(st, field, max) ==
  IF /\ field \in DOMAIN st.data
     /\ st.data[field].type = "string"
     /\ st.data[field].text /= ""
    THEN AfterSplit(st, field, SplitSentences(Trim(st.data[field].text)),
                    max)
    ELSE st

\* pass 1, from the i-th field of trimOrder on
RECURSIVE FirstPass(_, _, _)
FirstPass(st, i, max) ==
  IF i > Len(trimOrder) \/ st.currentWordCount <= max THEN st
  ELSE FirstPass(TrimField(st, trimOrder[i], max), i + 1, max)

Tagged(field, sentences) ==
  [k \in 1..Len(sentences) |->
     [text |-> sentences[k], field |-> field,
      wordCount |-> SplitLength(sentences[k])]]

\* allSentences: the sentences of every filled string, in Object.entries
\* order
RECURSIVE AllSentences(_, _)
AllSentences(data, i) ==
  IF i > Len(SectionKeys) THEN <<>>
  ELSE (IF SectionKeys[i] \in DOMAIN data
             /\ IsFilledString(data[SectionKeys[i]])
          THEN Tagged(SectionKeys[i],
                      SplitSentences(data[SectionKeys[i]].text))
          ELSE <<>>)
         \o AllSentences(data, i + 1)

\* cutoffIndex: how many sentences fit, counted from the first
RECURSIVE CutoffIndex(_, _, _, _)
CutoffIndex(allSentences, i, runningTotal, max) ==
  IF i > Len(allSentences) THEN Len(allSentences)
  ELSE IF runningTotal + allSentences[i].wordCount > max THEN i - 1
  ELSE CutoffIndex(allSentences, i + 1,
                   runningTotal + allSentences[i].wordCount, max)

\* finalData after the sentences i..cutoffIndex have been put back
RECURSIVE Rebuild(_, _, _, _)
Rebuild(finalData, allSentences, i, cutoffIndex) ==
  IF i > cutoffIndex THEN finalData
  ELSE Rebuild([finalData EXCEPT
                  ![allSentences[i].field] =
                     IF @ /= "" THEN @ \o " " \o allSentences[i].text
                     ELSE allSentences[i].text],
               allSentences, i + 1, cutoffIndex)

\* every key of finalData trimmed and assigned over trimmedData
Assigned(data, finalData) ==
  [key \in DOMAIN data |-> Str(Trim(finalData[key]))]

\* the truncation that puts back the kept sentences but the first
Truncated_fromSecond(data, allSentences, max) ==
  Assigned(data,
           Rebuild([key \in DOMAIN data |-> ""], allSentences, 2,
                   CutoffIndex(allSentences, 1, 0, max)))

\* the truncation that keeps the sentence that crosses the budget
Truncated_oneMore(data, allSentences, max) ==
  Assigned(data,
           Rebuild([key \in DOMAIN data |-> ""], allSentences, 1,
                   IF CutoffIndex(allSentences, 1, 0, max) < Len(allSentences)
                     THEN CutoffIndex(allSentences, 1, 0, max) + 1
                     ELSE Len(allSentences)))

Truncated(data, allSentences, max) ==
  Assigned(data,
           Rebuild([key \in DOMAIN data |-> ""], allSentences, 1,
                   CutoffIndex(allSentences, 1, 0, max)))

\* pass 2: sentence-aware global truncation
SecondPass(data, max) == Truncated(data, AllSentences(data, 1), max)

AfterFirstPass(st, max) ==
  IF st.currentWordCount > max
    THEN [data |-> SecondPass(st.data, max), pass |-> "second", first |-> st]
    ELSE [data |-> st.data, pass |-> "first", first |-> st]

\* the trimmer without its early return, rebuilding every map it is given
TrimFrom_rebuilding(data, totalWords, max) ==
  [data |-> SecondPass(data, max), pass |-> "second",
   first |-> [data |-> data, currentWordCount |-> totalWords]]

TrimFrom(data, totalWords, max) ==
  IF totalWords <= max
    THEN [data |-> data, pass |-> "none",
          first |-> [data |-> data, currentWordCount |-> totalWords]]
  ELSE AfterFirstPass(FirstPass([data |-> data,
                                 currentWordCount |-> totalWords], 1, max),
                      max)

\* what wordCountValidator(coverLetterData, maxWords) returns, and the last
\* pass it ran
Trimmed(data, max) == TrimFrom(data, TotalWords(data), max)

\* sample field texts: empty, one sentence, three sentences with a double
\* space, leading space and an unterminated last sentence, a full stop
\* inside a word and a trailing space
TextEmpty == ""
TextOne == "One two."
TextThree == "Aa bb.  Cc dd ee! Ff?"
TextLoose == " Gg hh. Ii"
TextVersion == "Use v1.2 now. Ok "
SampleValues ==
  {Str(TextEmpty), Str(TextOne), Str(TextThree), Str(TextLoose),
   Str(TextVersion), NotAString}

\* the fields the sample maps vary: one outside trimOrder, an early and the
\* last field of trimOrder
VariedFields ==
  {"OpeningHookParagraph", "WhyCompanySentence", "ClosingParagraph"}

\* the aggregated map with the varied fields filled in
SampleMap(values) ==
  [key \in SectionKeySet |->
     IF key \in VariedFields THEN values[key]
     ELSE IF key = "HiringManagerOrTeamName" THEN Str("Hiring Manager")
     ELSE IF key = "CandidateFullName" THEN Str("Pat Doe")
     ELSE Str("")]

SampleMaps == {SampleMap(values) : values \in [VariedFields -> SampleValues]}

MaxBudget == 10

TrimReturned(r) ==
  /\ trimmedData' = r.data
  /\ trimmerPass' = r.pass
  /\ afterFirstPass' = r.first

\* wordCountValidator(coverLetterData, maxWords)
WordCountValidator(data, max) ==
  /\ trimmerState = "none"
  /\ trimmerState' = "done"
  /\ sectionMap' = data
  /\ maxWords' = max
  /\ TrimReturned(Trimmed(data, max))
  /\ UNCHANGED <<executeVars, cacheVars, validatorVars, uploadVars>>

\* wordCountValidator called on what it returned, with the same budget
WordCountValidatorAgain ==
  /\ trimmerState = "done"
  /\ trimmerState' = "again"
  /\ sectionMap' = trimmedData
  /\ TrimReturned(Trimmed(trimmedData, maxWords))
  /\ UNCHANGED <<maxWords, executeVars, cacheVars, validatorVars,
                 uploadVars>>

TrimInit ==
  /\ Init
  /\ jobDescription.found
  /\ hasDocuments

TrimNext ==
  \/ \E data \in SampleMaps, max \in 0..MaxBudget :
       WordCountValidator(data, max)
  \/ WordCountValidatorAgain

TrimSpec == TrimInit /\ [][TrimNext]_vars

\* ------------------------------------ uploads against a run's cache loads
\* Versions count the user's uploads: version n is the documents table after
\* the n-th createDocument. The loads are split where the code awaits an
\* external call (the documents query, the embeddings call, the mapping
\* call); awaits of the cache's own async accessors resume without any other
\* request running.
MaxUploads == 2
MaxLoads == 2

\* cache.get(key) as seen by its caller
ReadOf(key) ==
  [key |-> key, found |-> userCache[key].found,
   version |-> userCache[key].version, after |-> uploads.invalidated]

\* getRawResumeContent returns to execute (step 2) or to generateEmbeddings
ReturnRaw(version) ==
  IF load.caller = "execute"
    THEN [load EXCEPT !.pc = "getProcessed", !.resumeContent = version]
    ELSE [load EXCEPT !.pc = "embeddings", !.content = version]

\* execute reaches step 2 and calls getRawResumeContent
LoadStart ==
  /\ load.pc = "idle"
  /\ load.runs < MaxLoads
  /\ load' = [load EXCEPT !.pc = "getRaw", !.caller = "execute",
                          !.runs = @ + 1]
  /\ UNCHANGED <<uploads, userCache, lastRead>>
  /\ UNCHANGED <<executeVars, cacheVars, validatorVars, trimmerVars>>

\* getRawResumeContent: the raw cache is read; a miss issues the documents
\* query
LoadGetRaw ==
  /\ load.pc = "getRaw"
  /\ lastRead' = ReadOf(ResumeRawKey)
  /\ load' = IF userCache[ResumeRawKey].found
               THEN ReturnRaw(userCache[ResumeRawKey].version)
               ELSE [load EXCEPT !.pc = "select"]
  /\ UNCHANGED <<uploads, userCache>>
  /\ UNCHANGED <<executeVars, cacheVars, validatorVars, trimmerVars>>

\* the database answers db.select().from(documents)
LoadSelect ==
  /\ load.pc = "select"
  /\ load' = [load EXCEPT !.pc = "setRaw", !.rows = uploads.documents]
  /\ UNCHANGED <<uploads, userCache, lastRead>>
  /\ UNCHANGED <<executeVars, cacheVars, validatorVars, trimmerVars>>

\* getRawResumeContent resumes: setRaw(userId, resumeContent), return
LoadSetRaw ==
  /\ load.pc = "setRaw"
  /\ userCache' = [userCache EXCEPT ![ResumeRawKey] = Stored(load.rows)]
  /\ load' = ReturnRaw(load.rows)
  /\ UNCHANGED <<uploads, lastRead>>
  /\ UNCHANGED <<executeVars, cacheVars, validatorVars, trimmerVars>>

\* generateEmbeddings: the processed cache is read; a miss calls
\* getRawResumeContent
LoadGetProcessed ==
  /\ load.pc = "getProcessed"
  /\ lastRead' = ReadOf(ResumeProcessedKey)
  /\ load' = IF userCache[ResumeProcessedKey].found
               THEN [load EXCEPT !.pc = "mappingGet"]
               ELSE [load EXCEPT !.pc = "getRaw",
                                 !.caller = "generateEmbeddings"]
  /\ UNCHANGED <<uploads, userCache>>
  /\ UNCHANGED <<executeVars, cacheVars, validatorVars, trimmerVars>>

\* the embeddings call answers: setProcessed(userId, embeddings), or the
\* call throws and execute fails
LoadEmbeddingsReturn ==
  /\ load.pc = "embeddings"
  /\ \/ /\ userCache' = [userCache EXCEPT
                           ![ResumeProcessedKey] = Stored(load.content)]
        /\ load' = [load EXCEPT !.pc = "mappingGet"]
     \/ /\ load' = [load EXCEPT !.pc = "idle"]
        /\ UNCHANGED userCache
  /\ UNCHANGED <<uploads, lastRead>>
  /\ UNCHANGED <<executeVars, cacheVars, validatorVars, trimmerVars>>

\* CoverLetterDataCache.get: processed, then raw; a miss calls
\* mapAccomplishmentsToRequirements(resumeContent, keyRequirements)
LoadMappingGet ==
  /\ load.pc = "mappingGet"
  /\ lastRead' = IF userCache[MappingProcessedKey].found
                   THEN ReadOf(MappingProcessedKey)
                   ELSE ReadOf(MappingRawKey)
  /\ load' = IF userCache[MappingProcessedKey].found
                  \/ userCache[MappingRawKey].found
               THEN [load EXCEPT !.pc = "idle"]
               ELSE [load EXCEPT !.pc = "mapping"]
  /\ UNCHANGED <<uploads, userCache>>
  /\ UNCHANGED <<executeVars, cacheVars, validatorVars, trimmerVars>>

\* the mapping call answers: CoverLetterDataCache.set stores the mapping
\* made from step 2's resumeContent in both tiers
LoadMappingReturn ==
  /\ load.pc = "mapping"
  /\ userCache' = [userCache EXCEPT
                     ![MappingRawKey] = Stored(load.resumeContent),
                     ![MappingProcessedKey] = Stored(load.resumeContent)]
  /\ load' = [load EXCEPT !.pc = "idle"]
  /\ UNCHANGED <<uploads, lastRead>>
  /\ UNCHANGED <<executeVars, cacheVars, validatorVars, trimmerVars>>

\* POST /api/documents/upload: storage.createDocument
UploadCreateDocument ==
  /\ uploads.pc = "idle"
  /\ uploads.documents < MaxUploads
  /\ uploads' = [uploads EXCEPT !.pc = "invalidate", !.documents = @ + 1]
  /\ UNCHANGED <<userCache, load, lastRead>>
  /\ UNCHANGED <<executeVars, cacheVars, validatorVars, trimmerVars>>

\* the entries invalidateUserCaches leaves: the resume's two are deleted,
\* and every key that includes the pattern
Invalidated(entries, u) ==
  [k \in DOMAIN entries |->
     IF k \in {DomainKey("Resume", u, "_raw"),
               DomainKey("Resume", u, "_processed")}
          \/ (entries[k].found /\ Includes(k, UserCachePattern(u)))
       THEN Missing ELSE entries[k]]

\* POST /api/documents/upload: invalidateUserCaches(userId)
UploadInvalidate ==
  /\ uploads.pc = "invalidate"
  /\ userCache' = Invalidated(userCache, UploadingUser)
  /\ uploads' = [uploads EXCEPT !.pc = "idle",
                                !.invalidated = uploads.documents]
  /\ UNCHANGED <<load, lastRead>>
  /\ UNCHANGED <<executeVars, cacheVars, validatorVars, trimmerVars>>

UploadInit ==
  /\ Init
  /\ jobDescription.found
  /\ hasDocuments

UploadNext ==
  \/ LoadStart
  \/ LoadGetRaw
  \/ LoadSelect
  \/ LoadSetRaw
  \/ LoadGetProcessed
  \/ LoadEmbeddingsReturn
  \/ LoadMappingGet
  \/ LoadMappingReturn
  \/ UploadCreateDocument
  \/ UploadInvalidate

UploadSpec == UploadInit /\ [][UploadNext]_vars

\* ------------------------------------------------------------------ claims
\* the phases of section 4.6 by the step number passed to updateProgress
PhaseName(n) ==
  CASE n = 1 -> "analyzing"
    [] n = 2 -> "loading-context"
    [] n = 3 -> "mapping-accomplishments"
    [] n = 4 -> "generating"
    [] n = 6 -> "validating"
    [] n = 7 -> "refining-coherence"
    [] n = 8 -> "trimming"
    [] n = 9 -> "finalizing"
    [] OTHER -> "unknown"

PhaseOrder == <<"analyzing", "loading-context", "mapping-accomplishments",
                "generating", "validating", "refining-coherence", "trimming",
                "finalizing">>

EnteredPhases == [i \in 1..Len(entered) |-> PhaseName(entered[i])]

AllSettled(members) == \A t \in DOMAIN members : members[t].st = "settled"

\* C1: when execute() has rejected, the PipelineRun is failed with the error
\* message in its log and the GenerationJob is failed.
C1_FailureMarksBothRecordsFailed ==
  pc = "rejected" =>
    /\ pipelineRun.status = "failed"
    /\ pipelineRun.agentLogs /= NoError
    /\ coverLetter.status = "failed"

\* C2: a completed or failed status of the GenerationJob or of the PipelineRun
\* is never changed by a later step.
C2_TerminalStatusNeverChanges ==
  [][/\ coverLetter.status \in TerminalStatus
          => coverLetter'.status = coverLetter.status
     /\ pipelineRun.status \in TerminalStatus
          => pipelineRun'.status = pipelineRun.status]_vars

\* C3: once a stop request has been handled, no step writes currentStep or
\* progress and no step writes content or scores to the GenerationJob.
C3_NothingWrittenAfterStop ==
  [][stopHandled =>
       /\ pipelineRun'.currentStep = pipelineRun.currentStep
       /\ pipelineRun'.progress = pipelineRun.progress
       /\ coverLetter'.content = coverLetter.content
       /\ coverLetter'.qualityScore = coverLetter.qualityScore
       /\ coverLetter'.validationScore = coverLetter.validationScore]_vars

\* C4: a GenerationJob whose status is completed holds the trimmed section
\* map its run produced, never null or a map of an earlier stage.
C4_CompletedHoldsFinalContent ==
  coverLetter.status = "completed" =>
    /\ coverLetter.content /= NoContent
    /\ coverLetter.content.stage = "trimmed"
    /\ coverLetter.content = validatedContent

C4_Witness ==
  /\ coverLetter.status = "completed"
  /\ coverLetter.content.stage = "trimmed"
  /\ pipelineRun.status = "completed"

\* C5: every started run eventually has PipelineRun.status completed or
\* failed.
C5_RunEventuallyTerminal == <>(pipelineRun.status \in TerminalStatus)

\* C6: the phases are entered in the fixed order, none twice, and a run that
\* is completed has entered all eight of them.
C6_PhasesInFixedOrder ==
  /\ Len(entered) <= Len(PhaseOrder)
  /\ EnteredPhases = SubSeq(PhaseOrder, 1, Len(entered))
  /\ pipelineRun.status = "completed" => EnteredPhases = PhaseOrder

C6_Witness ==
  /\ pipelineRun.status = "completed"
  /\ EnteredPhases = PhaseOrder

\* C7: the members of Phase 1 and of Phase 4 are started together, and the
\* step after each phase is taken only when every member has settled.
C7_JoinAfterAllSettled ==
  /\ \A t, u \in ExtractorSet :
       extractors[t].st = "idle" <=> extractors[u].st = "idle"
  /\ \A t, u \in AgentSet : agents[t].st = "idle" <=> agents[u].st = "idle"
  /\ (pc = "updateJobDescription" \/ jobDescription.atsKeywords /= NoValue)
       => AllSettled(extractors)
  /\ (pc = "progress6" \/ coverLetterData /= NoContent) => AllSettled(agents)

C7_Witness ==
  /\ pc = "progress6"
  /\ coverLetterData /= NoContent
  /\ AllSettled(agents)
  /\ jobDescription.atsKeywords /= NoValue
  /\ AllSettled(extractors)

\* C8: the coherence call is issued at most once, and only when all seven
\* agents have settled and claim validation of the aggregated map has
\* returned.
C8_CoherenceOnceAfterUpstream ==
  /\ coherenceCalls <= 1
  /\ coherenceCalls >= 1 =>
       /\ AllSettled(agents)
       /\ coverLetterData.stage = "aggregated"
       /\ validationResult.made
       /\ resumeValidatedContent.stage = "validated"

C8_Witness ==
  /\ pc = "coherence"
  /\ coherenceCalls = 1
  /\ validationResult.made

\* C9: whatever the completion order, the aggregated map has the fixed keys
\* and each section holds the value returned by its own agent.
C9_SectionsHoldOwnAgentsValue ==
  coverLetterData /= NoContent =>
    /\ DOMAIN coverLetterData.vals = SectionKeySet
    /\ \A k \in SectionKeySet :
         IF AgentOf(k) = "literal"
           THEN coverLetterData.vals[k] = Literal
           ELSE /\ coverLetterData.vals[k].by = AgentOf(k)
                /\ coverLetterData.vals[k] =
                     SectionValue(agents[AgentOf(k)].val, k)

C9_Witness ==
  /\ pc = "progress6"
  /\ firstSettled = "Closing"
  /\ coverLetterData.vals["OpeningHookParagraph"] = Generated("OpeningHook")
  /\ coverLetterData.vals["ClosingParagraph"] = Fallback("Closing")

\* C10: a task whose text-generation call threw has settled with its fixed
\* fallback; no fan-out member is rejected, and the error that fails a run is
\* never a task's text-generation error.
C10_ServiceFailureYieldsFallback ==
  /\ \A t \in ExtractorSet :
       /\ extractors[t].st /= "rejected"
       /\ extractors[t].out = "throw"
            => extractors[t].st = "settled" /\ extractors[t].val = Fallback(t)
  /\ \A t \in AgentSet :
       /\ agents[t].st /= "rejected"
       /\ agents[t].out = "throw"
            => agents[t].st = "settled" /\ agents[t].val = Fallback(t)
  /\ error.task = "none"
  /\ pipelineRun.agentLogs.task = "none"

C10_Witness ==
  /\ pipelineRun.status = "completed"
  /\ coverLetter.status = "completed"
  /\ \E t \in AgentSet \cup ExtractorSet :
       IF t \in AgentSet THEN agents[t].out = "throw"
       ELSE extractors[t].out = "throw"

\* C11: when the value-proposition agent's structured output is not four
\* title/details pairs, all eight ValueProp fields of the section map come
\* from the fixed default structure; none is empty or taken from the
\* partial structure.
C11_MalformedShapeUsesDefault ==
  (coverLetterData /= NoContent /\ agents["ValueProps"].out = "malformed") =>
    \A k \in ValuePropKeys :
      coverLetterData.vals[k] = Fallback("ValueProps")

\* the step number whose work the external call awaited at p belongs to;
\* 0 when p is not a call of a phase
StepOfCall(p) ==
  CASE p \in {"phase1", "updateJobDescription"} -> 1
    [] p \in {"styleGuideRaw", "resumeRaw", "embeddings"} -> 2
    [] p = "mapAccomplishments" -> 3
    [] p = "phase4" -> 4
    [] p = "coherence" -> 7
    [] p \in {"updateCoverLetter", "getPipelineRun", "updatePipelineRun"} -> 9
    [] OTHER -> 0

\* the name updateProgress is given for each step number
StepName(n) ==
  CASE n = 1 -> "Running parallel analysis"
    [] n = 2 -> "Loading style guide content"
    [] n = 3 -> "Checking cover letter cache"
    [] n = 4 -> "Generating sections in parallel"
    [] n = 6 -> "Validating against resume"
    [] n = 7 -> "Coherence analysis"
    [] n = 8 -> "Validating word count"
    [] n = 9 -> "Finalizing Document"
    [] OTHER -> "Initializing"

\* C12: while an external call of a phase is in flight, the PipelineRun
\* holds that phase's currentStep and progress, not an earlier phase's.
C12_PollReadsPhaseInFlight ==
  StepOfCall(pc) /= 0 =>
    /\ pipelineRun.currentStep = StepName(StepOfCall(pc))
    /\ pipelineRun.progress = RoundPercent(StepOfCall(pc), TotalSteps)
    /\ entered /= <<>>
    /\ entered[Len(entered)] = StepOfCall(pc)

C12_Witness ==
  /\ pc = "phase4"
  /\ \E t \in AgentSet : agents[t].st = "pending"
  /\ \E t \in AgentSet : agents[t].st = "settled"
  /\ pipelineRun.currentStep = "Generating sections in parallel"
  /\ pipelineRun.progress = 44
  /\ pipelineRun.status = "stopped"

\* the ways out of execute(): its return, and its rejection from the catch
Exited == pc \in {"returned", "rejected"}

\* C13: the watchdog interval is cancelled on every exit path of execute(),
\* it does not run once cancelled, and a tick changes no PipelineRun,
\* GenerationJob or cache state.
C13_WatchdogClearedAndHarmless ==
  /\ [](Exited => watchdogInterval = "cleared")
  /\ [][/\ watchdogInterval = "cleared" => watchdogTicks' = watchdogTicks
        /\ watchdogTicks' /= watchdogTicks =>
             UNCHANGED <<records, cache, pc, error, watchdogInterval>>]_vars

C13_Witness ==
  /\ pc = "rejected"
  /\ watchdogTicks = 1
  /\ watchdogInterval = "cleared"

\* C14: a get of a stored entry returns its value at every time before the
\* ttl given to set has elapsed and leaves the entry in place; at every time
\* strictly after, it returns absent and removes the entry.
C14_ValueLivesUntilExpiry ==
  [][(lastCall'.op = "get" /\ cacheCalls' = cacheCalls + 1) =>
       LET k == lastCall'.key
           e == store[k]
       IN e /= NoEntry =>
            /\ (now < e.setAt + e.ttl * 1000) =>
                 (lastCall'.result = e.data /\ store'[k] = e)
            /\ (now > e.setAt + e.ttl * 1000) =>
                 (lastCall'.result = NoData /\ store'[k] = NoEntry)]_vars

C14_Witness ==
  /\ lastCall.op = "get"
  /\ lastCall.found /= NoData
  /\ lastCall.result = NoData
  /\ store[lastCall.key] = NoEntry
  /\ now > 1000 * TtlSeconds("CoverLetter")

\* C15: after invalidateUserCaches(u) the store holds no entry keyed under
\* u: style-guide, resume and every job-mapping entry, raw and processed.
C15_InvalidateRemovesAllOfUser ==
  lastCall.op = "invalidate" =>
    \A k \in KeysOf(lastCall.user) : store[k] = NoEntry

\* C16: invalidateUserCaches(a) leaves every entry keyed under another user
\* present and unchanged, also when one id is a decimal prefix of the other.
C16_InvalidateLeavesOtherUsers ==
  [][(lastCall'.op = "invalidate" /\ cacheCalls' = cacheCalls + 1) =>
       \A b \in Users \ {lastCall'.user} :
         \A k \in KeysOf(b) : store'[k] = store[k]]_vars

C16_Witness ==
  /\ lastCall.op = "invalidate"
  /\ lastCall.user = 1
  /\ \E job \in Jobs : store[LetterKey(job, 11, "_raw")] /= NoEntry

\* C17: a read issued for one user never returns a value stored by an
\* operation for another user.
C17_NoCrossTenantRead ==
  lastCall.result /= NoData => lastCall.result.owner = lastCall.user

C17_Witness ==
  /\ lastCall.op = "getRawContent"
  /\ lastCall.user = 11
  /\ lastCall.result.owner = 11
  /\ store[DomainKey(lastCall.result.coll, 1, "_raw")] /= NoEntry

\* C18: when the compute step of a domain cache fails, the caller gets a
\* domain default, no error, and nothing is cached under the key.
C18_ComputeFailureYieldsUncachedDefault ==
  lastCall.failed = "compute" =>
    /\ ~lastCall.raised
    /\ lastCall.result.kind \in {"processedDefault", "mappingDefault"}
    /\ store[lastCall.key] = NoEntry

\* C19: a processed entry that fails its domain's shape check is not
\* returned as a hit; the accessor goes on to recompute, and an error is
\* raised only when the documents query or the compute call itself throws.
C19_ShapeMismatchIsMiss ==
  (lastCall.op \in {"compute", "loadMapping"}
     /\ lastCall.found.shape = "invalid") =>
    /\ ~lastCall.hit
    /\ lastCall.raised => lastCall.failed \in {"documents", "compute"}
    /\ ~lastCall.raised => store[lastCall.key].data = lastCall.result

C19_Witness ==
  /\ lastCall.op = "compute"
  /\ lastCall.found.shape = "invalid"
  /\ ~lastCall.hit
  /\ lastCall.result.shape = "valid"

\* C20: a validator whose document gave fewer than 5 phrases returns
\* isValid = true, score = 85, no flagged claims and the input as supported
\* claims for every sentence list, and evaluates no sentence.
C20_LenientModeAcceptsAll ==
  (validatorState = "done" /\ Len(resumePhrases) < 5) =>
    /\ report.isValid
    /\ report.score = 85
    /\ report.flaggedClaims = <<>>
    /\ report.supportedClaims = inputSentences
    /\ sentenceResults = <<>>
    /\ validationCache = {}

C20_Witness ==
  /\ validatorState = "done"
  /\ Len(resumePhrases) \in 3..4
  /\ Len(inputSentences) = 2
  /\ inputSentences[2] = SentenceBananas
  /\ report.score = 85

HasLine(phrases, line) == \E i \in 1..Len(phrases) : phrases[i].text = line

\* C22: with the line 'Led a team of 12 engineers, reducing deployment time
\* by 40%' in the document, the sentence 'I led a team of 12 engineers' is
\* found supported by tier 2 or tier 3 with a confidence of at least 0.15.
C22_LedTeamSupportedByTier2Or3 ==
  (validatorState = "done" /\ HasLine(resumePhrases, LineLedTeam)) =>
    \A i \in 1..Len(inputSentences) :
      inputSentences[i] = SentenceILed =>
        /\ i <= Len(sentenceResults)
        /\ sentenceResults[i].result.supported
        /\ sentenceResults[i].result.tier \in {"exact", "jaccard"}
        /\ AtLeast(sentenceResults[i].result.confidence, 15, 100)

\* the tiers of validateSentence as conditions on the sentence alone
ExactContainment(sentence, phrases) ==
  \E i \in 1..Len(phrases) :
    /\ phrases[i].normalized /= ""
    /\ Includes(NormalizeText(sentence), phrases[i].normalized)

JaccardOf(sentence, phrases) ==
  BestSimilarity(NormalizeText(sentence), phrases, [num |-> 0, den |-> 1])

OnAllowList(sentence) == ContainsAny(sentence, StandardElements \cup ActionVerbs)

SemanticOf(sentence, phrases) ==
  ComputeSemanticSimilarity(sentence, phrases, [num |-> 0, den |-> 1])

\* the first tier after the cache that matches the sentence
FirstTier(exact, jaccard, allowed, professional) ==
  IF exact THEN "exact"
  ELSE IF AtLeast(jaccard, 15, 100) THEN "jaccard"
  ELSE IF allowed THEN "allowList"
  ELSE IF professional THEN "professional"
  ELSE "semantic"

\* the confidence each tier reports
TierConfidence(tier, jaccard, semantic) ==
  CASE tier = "exact" -> [num |-> 1, den |-> 1]
    [] tier = "jaccard" -> jaccard
    [] tier = "allowList" -> [num |-> 85, den |-> 100]
    [] tier = "professional" -> [num |-> 80, den |-> 100]
    [] OTHER -> IF AtLeast(semantic, 6, 10) THEN semantic
                ELSE [num |-> 6, den |-> 10]

\* a computed result is the first matching tier's; an unsupported result is
\* the semantic tier's with a score below 0.1
InTierOrder(r, tier, jaccard, semantic) ==
  /\ ~r.cached =>
       /\ r.result.tier = tier
       /\ r.result.confidence = TierConfidence(tier, jaccard, semantic)
       /\ r.result.supported = (tier /= "semantic" \/ AtLeast(semantic, 1, 10))
  /\ ~r.result.supported => (tier = "semantic" /\ ~AtLeast(semantic, 1, 10))

\* C28: validateSentence returns the result of the first tier that matches,
\* in the order cache, exact containment (1.0), Jaccard >= 0.15, allow list
\* (0.85), professional patterns (0.80), semantic fallback; a sentence is
\* unsupported only when all of its earlier tiers fail and its semantic score
\* is below 0.1.
C28_TiersInOrderFirstMatchWins ==
  validatorState = "done" =>
    \A i \in 1..Len(sentenceResults) :
      InTierOrder(sentenceResults[i],
                  FirstTier(ExactContainment(inputSentences[i], resumePhrases),
                            JaccardOf(inputSentences[i], resumePhrases),
                            OnAllowList(inputSentences[i]),
                            MatchesProfessionalPattern(inputSentences[i])),
                  JaccardOf(inputSentences[i], resumePhrases),
                  SemanticOf(inputSentences[i], resumePhrases))

\* C29: the result tier 1 returns for a sentence is the result computed
\* earlier for that same sentence text, never one computed for another text.
C29_MemoIsOfSameSentence ==
  validatorState = "done" =>
    \A i \in 1..Len(sentenceResults) :
      sentenceResults[i].cached =>
        \E j \in 1..(i - 1) :
          /\ inputSentences[j] = inputSentences[i]
          /\ ~sentenceResults[j].cached
          /\ sentenceResults[j].result = sentenceResults[i].result

\* C30: no sentence found unsupported has a phrase with Jaccard similarity
\* above 0.5, so every validation report has an empty corrections list.
C30_NoCorrections ==
  validatorState = "done" => report.corrections = <<>>

\* C27: the section map persisted at the end of a run has exactly the keys
\* the aggregation step produced: validation, coherence refinement and
\* trimming add, drop or rename no key.
C27_PersistedKeySetFixed ==
  coverLetter.content.stage = "trimmed" =>
    DOMAIN coverLetter.content.vals = SectionKeySet

\* the sentences of a field, as the trimmer splits them
SentencesOfValue(value) ==
  IF value.type = "string" THEN SplitSentences(Trim(value.text)) ELSE <<>>

\* s can be had from t by leaving members out
RECURSIVE IsSubsequence(_, _)
IsSubsequence(s, t) ==
  IF Len(s) = 0 THEN TRUE
  ELSE IF Len(t) = 0 THEN FALSE
  ELSE IF s[1] = t[1] THEN IsSubsequence(Tail(s), Tail(t))
  ELSE IsSubsequence(s, Tail(t))

\* C23: when the section map's total word count exceeds the budget, the
\* returned map's total is at most the budget; and the returned map never
\* has more words than the map given.
C23_WithinBudgetNeverMore ==
  trimmerState /= "none" =>
    /\ TotalWords(sectionMap) > maxWords =>
         TotalWords(trimmedData) <= maxWords
    /\ TotalWords(trimmedData) <= TotalWords(sectionMap)

\* a map over budget cut by pass 1 alone, and one cut by pass 2 with words
\* left
C23_Witness ==
  /\ trimmerState = "done"
  /\ TotalWords(sectionMap) > maxWords
  /\ trimmerPass = "second"
  /\ TotalWords(trimmedData) > 0
  /\ TotalWords(trimmedData) < maxWords

\* C24: when the section map's total word count is at most the budget the
\* trimmer returns the map it was given; trimming a returned map again with
\* the same budget returns it unchanged.
C24_NoOpWithinBudget ==
  /\ (trimmerState /= "none" /\ TotalWords(sectionMap) <= maxWords) =>
       trimmedData = sectionMap
  /\ trimmerState = "again" => trimmedData = sectionMap

\* a map that pass 2 cut, given to the trimmer again
C24_Witness ==
  /\ trimmerState = "again"
  /\ trimmerPass = "none"
  /\ TotalWords(sectionMap) = maxWords
  /\ \E key \in VariedFields : Len(SentencesOfValue(sectionMap[key])) = 2

\* C25: every string field of the returned map is made of whole sentences
\* of the same field of the map given, in their order there.
C25_WholeSentencesInOrder ==
  trimmerState /= "none" =>
    \A key \in DOMAIN trimmedData :
      IsSubsequence(SentencesOfValue(trimmedData[key]),
                    IF key \in DOMAIN sectionMap
                      THEN SentencesOfValue(sectionMap[key]) ELSE <<>>)

\* pass 2 kept two of a field's three sentences
C25_Witness ==
  /\ trimmerState = "done"
  /\ trimmerPass = "second"
  /\ \E key \in VariedFields :
       /\ Len(SentencesOfValue(sectionMap[key])) = 3
       /\ Len(SentencesOfValue(trimmedData[key])) = 2

\* a field of the returned map has fewer sentences than it had
Shortened(key) ==
  Len(SentencesOfValue(trimmedData[key]))
    < Len(SentencesOfValue(sectionMap[key]))

\* C26: for a map over budget, sentences leave the closing field before
\* any other field loses one; the returned total is at most the budget; the
\* closing field keeps a sentence unless pass 2 ran.
C26_ClosingTrimmedFirst ==
  (trimmerState = "done" /\ TotalWords(sectionMap) > maxWords) =>
    /\ (\E key \in SectionKeySet \ {"ClosingParagraph"} : Shortened(key)) =>
         Len(SentencesOfValue(trimmedData["ClosingParagraph"])) <= 1
    /\ TotalWords(trimmedData) <= maxWords
    /\ (trimmerPass /= "second"
          /\ Len(SentencesOfValue(sectionMap["ClosingParagraph"])) >= 1) =>
         Len(SentencesOfValue(trimmedData["ClosingParagraph"])) >= 1

\* the sentences whose validation said supported (or not), in input order
RECURSIVE Classified(_, _, _)
Classified(sentences, results, supported) ==
  IF Len(sentences) = 0 \/ Len(results) = 0 THEN <<>>
  ELSE (IF results[1].result.supported = supported
          THEN <<sentences[1]>> ELSE <<>>)
         \o Classified(Tail(sentences), Tail(results), supported)

\* C31: in a report of a validator with 5 or more phrases every input
\* sentence occurrence is in exactly one of supportedClaims and
\* flaggedClaims (by what its validation said), the two lengths sum to the
\* number of input sentences, and every correction's original is flagged.
C31_ClaimsPartitionSentences ==
  (validatorState = "done" /\ Len(resumePhrases) >= 5) =>
    /\ Len(sentenceResults) = Len(inputSentences)
    /\ report.supportedClaims
         = Classified(inputSentences, sentenceResults, TRUE)
    /\ report.flaggedClaims
         = Classified(inputSentences, sentenceResults, FALSE)
    /\ Len(report.supportedClaims) + Len(report.flaggedClaims)
         = Len(inputSentences)
    /\ \A i \in 1..Len(report.corrections) :
         \E j \in 1..Len(report.flaggedClaims) :
           report.flaggedClaims[j] = report.corrections[i].original

\* one sentence supported and one flagged, and a flagged one corrected
C31_Witness ==
  /\ validatorState = "done"
  /\ Len(resumePhrases) >= 5
  /\ Len(report.flaggedClaims) = 2
  /\ Len(report.corrections) = 1
  /\ report.corrections[1].original = report.flaggedClaims[2]

\* s is t cut off after some member
IsPrefix(s, t) == Len(s) <= Len(t) /\ s = SubSeq(t, 1, Len(s))

\* the words the first loop counts for a value
WordsOfValue(value) ==
  IF IsFilledString(value) THEN SplitLength(value.text) ELSE 0

\* the sentences of a field when pass 1 ended
SentencesAfterFirst(field) == SentencesOfValue(afterFirstPass.data[field])

\* pass 1 took sentences from the field
ShortenedInFirst(field) ==
  Len(SentencesAfterFirst(field)) < Len(SentencesOfValue(sectionMap[field]))

\* the words pass 1 took from the fields that follow the i-th of trimOrder
RECURSIVE RemovedAfter(_)
RemovedAfter(i) ==
  IF i >= Len(trimOrder) THEN 0
  ELSE WordsOfValue(sectionMap[trimOrder[i + 1]])
         - WordsOfValue(afterFirstPass.data[trimOrder[i + 1]])
         + RemovedAfter(i + 1)

\* the running total just before the last sentence left the i-th field
TotalBeforeLastPop(i) ==
  afterFirstPass.currentWordCount + RemovedAfter(i)
    + SplitLength(SentencesOfValue(sectionMap[trimOrder[i]])
                    [Len(SentencesAfterFirst(trimOrder[i])) + 1])

\* C32: when pass 1 ends, every field of the priority list holds a prefix
\* of its sentences and at least one if it had any; a field has lost
\* sentences only if every field before it in the list is down to one; the
\* last sentence taken was taken while the running total exceeded the
\* budget; and the running total is the word count of the map.
C32_FirstPassInOrderTrailingOnly ==
  trimmerPass /= "none" =>
    /\ afterFirstPass.currentWordCount = TotalWords(afterFirstPass.data)
    /\ \A i \in 1..Len(trimOrder) :
         /\ IsPrefix(SentencesAfterFirst(trimOrder[i]),
                     SentencesOfValue(sectionMap[trimOrder[i]]))
         /\ Len(SentencesOfValue(sectionMap[trimOrder[i]])) >= 1 =>
              Len(SentencesAfterFirst(trimOrder[i])) >= 1
         /\ ShortenedInFirst(trimOrder[i]) =>
              /\ \A j \in 1..(i - 1) :
                   Len(SentencesAfterFirst(trimOrder[j])) <= 1
              /\ TotalBeforeLastPop(i) > maxWords

\* pass 1 cut an early field to one sentence, took one of the closing
\* field's two and stopped within budget
C32_Witness ==
  /\ trimmerState = "done"
  /\ trimmerPass = "first"
  /\ Len(SentencesOfValue(sectionMap["WhyCompanySentence"])) = 3
  /\ Len(SentencesAfterFirst("WhyCompanySentence")) = 1
  /\ Len(SentencesOfValue(sectionMap["ClosingParagraph"])) = 2
  /\ Len(SentencesAfterFirst("ClosingParagraph")) = 1

\* the sentences of every field of a map with their fields, in
\* Object.entries order from the i-th key on
RECURSIVE Flattened(_, _)
Flattened(data, i) ==
  IF i > Len(SectionKeys) THEN <<>>
  ELSE [k \in 1..Len(SentencesOfValue(data[SectionKeys[i]])) |->
          [field |-> SectionKeys[i],
           text |-> SentencesOfValue(data[SectionKeys[i]])[k]]]
         \o Flattened(data, i + 1)

\* the words of the first n sentences of a flattened sequence
RECURSIVE WordsOfFirst(_, _)
WordsOfFirst(flat, n) ==
  IF n = 0 THEN 0
  ELSE SplitLength(flat[n].text) + WordsOfFirst(flat, n - 1)

\* kept is the longest prefix of flat with at most max words
LongestPrefixWithin(kept, flat, max) ==
  /\ IsPrefix(kept, flat)
  /\ WordsOfFirst(kept, Len(kept)) <= max
  /\ Len(kept) < Len(flat) => WordsOfFirst(flat, Len(kept) + 1) > max

\* the text of a field's sentences in a flattened sequence
RECURSIVE TextOfField(_, _)
TextOfField(flat, field) ==
  IF Len(flat) = 0 THEN ""
  ELSE IF flat[Len(flat)].field /= field
    THEN TextOfField(SubSeq(flat, 1, Len(flat) - 1), field)
  ELSE IF TextOfField(SubSeq(flat, 1, Len(flat) - 1), field) = ""
    THEN flat[Len(flat)].text
  ELSE TextOfField(SubSeq(flat, 1, Len(flat) - 1), field)
         \o " " \o flat[Len(flat)].text

\* C33: pass 2 runs exactly when the total after pass 1 exceeds the budget;
\* the map it returns holds the longest prefix of the sentences of the map
\* pass 1 left, taken field by field in key order, whose words fit the
\* budget, and every field is the text of its kept sentences, empty when
\* none was kept.
C33_SecondPassKeepsLongestPrefix ==
  trimmerState /= "none" =>
    /\ trimmerPass = "second" <=>
         TotalWords(afterFirstPass.data) > maxWords
    /\ trimmerPass = "second" =>
         /\ LongestPrefixWithin(Flattened(trimmedData, 1),
                                Flattened(afterFirstPass.data, 1), maxWords)
         /\ \A key \in DOMAIN trimmedData :
              trimmedData[key]
                = Str(TextOfField(Flattened(trimmedData, 1), key))

\* pass 2 kept some sentences, dropped others and emptied a filled field
C33_Witness ==
  /\ trimmerState = "done"
  /\ trimmerPass = "second"
  /\ Len(Flattened(trimmedData, 1)) >= 2
  /\ Len(Flattened(trimmedData, 1)) + 2
       <= Len(Flattened(afterFirstPass.data, 1))
  /\ \E key \in SectionKeySet :
       /\ IsFilledString(afterFirstPass.data[key])
       /\ trimmedData[key] = Str("")

\* the fields the priority list leaves out
OutsideTrimOrder ==
  {"HiringManagerOrTeamName", "OpeningHookParagraph", "ValueProp1Title",
   "ValueProp2Title", "ValueProp3Title", "ValueProp4Title",
   "CandidateFullName"}

\* C34: when pass 1 alone brings the total within the budget, every field
\* outside the priority list is the same in the map given and the map
\* returned.
C34_FirstPassLeavesOtherFields ==
  (trimmerState /= "none" /\ trimmerPass = "first") =>
    \A key \in OutsideTrimOrder : trimmedData[key] = sectionMap[key]

\* pass 1 cut a listed field and left an untrimmed text or a non-string
\* outside the list as it was
C34_Witness ==
  /\ trimmerState = "done"
  /\ trimmerPass = "first"
  /\ \E key \in SectionKeySet : ShortenedInFirst(key)
  /\ sectionMap["OpeningHookParagraph"] \in {Str(TextLoose), NotAString}
  /\ trimmedData["OpeningHookParagraph"] = sectionMap["OpeningHookParagraph"]

\* C35: the PipelineRun's progress is within 0..100 from its creation on
\* and no step of the run, of its catch block or of a stop request lowers
\* it.
C35_ProgressBoundedMonotone ==
  /\ pipelineRun.progress \in 0..100
  /\ [][/\ pipelineRun'.progress \in 0..100
        /\ pipelineRun'.progress >= pipelineRun.progress]_vars

\* a run stopped on the way whose later progress writes still went through
C35_Witness ==
  /\ stopHandled
  /\ pc = "returned"
  /\ pipelineRun.progress = 100
  /\ entered = <<1, 2, 3, 4, 6, 7, 8, 9>>

\* C36: the final cover-letter update of a run writes status completed
\* whatever the validation report's score, the fallback report of a failed
\* validation (isValid false, score 50) included; no step writes the status
\* refining.
C36_FinalStatusAlwaysCompleted ==
  /\ coverLetter.status /= "refining"
  /\ [][/\ coverLetter'.status /= "refining"
        /\ (pc = "updateCoverLetter" /\ pc' = "getPipelineRun") =>
             /\ coverLetter'.status = "completed"
             /\ coverLetter'.validationScore = validationResult.score]_vars

\* a run completed on the fallback report
C36_Witness ==
  /\ coverLetter.status = "completed"
  /\ coverLetter.validationScore = 50
  /\ ~validationResult.isValid
  /\ pc = "returned"

\* C37: a cache read of the user made after invalidateUserCaches has run
\* for an upload never returns content loaded or computed from the
\* documents as they were before that upload.
C37_NoStaleReadAfterInvalidation ==
  lastRead.found => lastRead.version >= lastRead.after


\* C38: when execute() has returned or rejected and no stop request is in
\* progress, the PipelineRun is completed exactly when the GenerationJob is
\* completed.
C38_RecordsAgreeWhenFinished ==
  (pc \in {"returned", "rejected"} /\ stopPc = "idle") =>
    (pipelineRun.status = "completed" <=> coverLetter.status = "completed")

====
